---- MODULE Spec2Model ----
(***************************************************************************)
(* Model of the fractal render engine (lib/fractalEngine.js), the host it  *)
(* runs on (frame scheduler, resize observation, canvas) and the compute   *)
(* channel it talks to (workers/fractalWorker.js).                         *)
(*                                                                         *)
(* Engine fields keep their source names.  Values that are null in the     *)
(* source are the string "null" for callback slots and handles, NoMessage  *)
(* for the pending slot and NoBuffer for the palette buffer.               *)
(* Variables under "instrumentation" record what the engine did (messages  *)
(* posted, draws, hook calls); the engine never reads them.                *)
(*                                                                         *)
(* The second half models the Scene Director (hooks/useFractalControls.js):*)
(* its tick, its Mutation Engine, its handlers and the composer it hands   *)
(* to the engine.  Director times are in tenths of a second.  A Director   *)
(* scale s is held as round(1000 * log10(s)), so that the products, powers *)
(* and logarithms the source takes of scales are sums, multiples and the   *)
(* value itself here; clamp, min and comparisons are unchanged by that.    *)
(***************************************************************************)
EXTENDS Integers, Sequences, FiniteSets, TLC

\* ---------------------------------------------------------------- bounds
MaxFrames == 3          \* frame callbacks fired by the host
MaxCalls == 2           \* setPalette, updateSettings and destroy calls, host resizes
                        \* and channel messages of other types, all together

\* Milliseconds between two host frame callbacks.
Deltas == {2}

\* ------------------------------------------------------------- constants
DEFAULT_MIN_INTERVAL == 5
DEFAULT_MAX_DPR == 2

\* FRACTAL_CONSTANTS of the Director: times in tenths of a second, scales as
\* round(1000 * log10(scale)).
PALETTE_COOLDOWN_SECONDS == 240
VARIANT_COOLDOWN_SECONDS == 320
JULIA_COOLDOWN_SECONDS == 200
MUTATION_INTERVAL_MIN == 120
MUTATION_INTERVAL_MAX == 200
ZOOM_DIRECTION_COOLDOWN_SECONDS == 60
ZOOM_OUT_MAX_SECONDS == 18
FRACTAL_TYPE_COOLDOWN_SECONDS == 260
INITIAL_VIEW_SCALE == -46          \* 0.9
MAX_VIEW_SCALE == 41               \* 1.1
MIN_VIEW_SCALE == -4523            \* 0.00003

\* What Math.random() returns, in hundredths, whenever the mutation interval
\* is drawn: the draw that brings the next cycle soonest.
IntervalRoll == 0

\* randomRange(MUTATION_INTERVAL_MIN, MUTATION_INTERVAL_MAX) for that draw.
MutationInterval ==
  MUTATION_INTERVAL_MIN +
    (IntervalRoll * (MUTATION_INTERVAL_MAX - MUTATION_INTERVAL_MIN)) \div 100

NoMessage == [type |-> "none"]
NoBuffer == [kind |-> "null", length |-> 0]

Max(a, b) == IF a >= b THEN a ELSE b
Min(a, b) == IF a <= b THEN a ELSE b

VARIABLES
  \* outcome of createFractalEngine: "none" (not called yet), "created", "failed"
  engine,
  failure,            \* which error construction threw ("" when none)
  given,              \* what createFractalEngine was called with
  \* FractalEngine fields
  options, context, worker, resizeObserver, animationId, running,
  paletteBuffer, paletteVersion, paletteSentVersion,
  busy, pendingMessage, lastTimestamp, telemetry,
  \* host
  canvas,             \* canvas.width / canvas.height
  host,               \* bounding rect of the canvas and devicePixelRatio
  now,                \* host clock (ms)
  rafCallback,        \* TRUE while the host holds a scheduled frame callback
  observing,          \* TRUE while a ResizeObserver observes the canvas
  \* compute channel
  messages,           \* every message posted to the worker, in order
  workerPos,          \* how many of them the worker has processed
  palette,            \* the worker's retained palette buffer
  results,            \* messages the worker posted back, not yet delivered
  listening,          \* TRUE while handleWorkerMessage is the worker's listener
  terminated,         \* worker.terminate() was called
  \* instrumentation
  composed,           \* number of render requests the composer has produced
  queued,             \* ids of the requests that were stored in the pending slot
  dropped,            \* ids of pending requests that were overwritten
  draws,              \* every draw performed, in order
  calls               \* counters of calls made by and to the engine, and the
                      \* argument of the last updateSettings call

VARIABLES
  \* Scene Director (useFractalControls)
  director,           \* "unmounted" until the mount effect has applied the first scene
  \* The refs and state of the hook, as one record:
  \*   view               viewRef.current: the scale (the centre is not modelled)
  \*   ambient            ambientStateRef.current: scene, cooldowns, timers
  \*   fractalType, fractalVariant, paletteIndex
  \*   autoZoomDirection  -1 inward, 1 outward
  \*   mutationsEnabled
  \*   statusMessage      how many fragments the published status joins (0: empty)
  \*   entry              instrumentation: the last scene entry, who caused it,
  \*                      from which scene and at which scale
  hook,
  request,            \* the last render request the composer returned
  \* instrumentation of the Director
  cycle,              \* the last run of the Mutation Engine
  sinceFired,         \* per guarded category: ticked time since it last fired (-1: never)
  marks               \* counters of ticks, composed frames, handler calls and
                      \* runs of the Mutation Engine, the last handler called
                      \* and the view scale it found

directorVars == <<director, hook, request, cycle, sinceFired, marks>>

VARIABLES
  \* Functions of the Director's utilities and of the worker, applied on their own
  focus,              \* the last pickFocusTarget call: its arguments and its result
  shade,              \* the last pixel the worker coloured: the render message, the
                      \* palette length, the pixel and the values of its colouring
  directive,          \* the last call of a handler by name from a directive source:
                      \* the name, the argument and whether the call threw
  lut,                \* the last buildPaletteLut call: its arguments and its result
  curator,            \* the useAiFractalCurator hook: its props, refs and state, the
                      \* requests it has in flight and its timer
  julia               \* the Director's Julia seed: juliaSeedRef, the published seed,
                      \* the morph of the ambient state, the last reseed and the seed
                      \* of the last composed render request

utilVars == <<focus, shade, directive, lut, curator, julia>>

engineVars == <<options, context, worker, resizeObserver, animationId, running,
                paletteBuffer, paletteVersion, paletteSentVersion,
                busy, pendingMessage, lastTimestamp, telemetry>>
hostVars == <<canvas, host, now, rafCallback, observing>>
channelVars == <<messages, workerPos, palette, results, listening, terminated>>
traceVars == <<composed, queued, dropped, draws, calls>>
vars == <<engine, failure, given, engineVars, hostVars, channelVars, traceVars, directorVars,
          utilVars>>

\* ------------------------------------------------------------ construction
\* Option objects handed to createFractalEngine; a key that is absent is
\* resolved with the default of the constructor's `??`.
OptionPresets ==
  { [minRenderInterval |-> 0, computeRenderPayload |-> "function",
     onTelemetry |-> "function", onDraw |-> "function"],
    [minRenderInterval |-> 3, maxDevicePixelRatio |-> 1,
     computeRenderPayload |-> "function", onWorkerMessage |-> "function"],
    [computeRenderPayload |-> "null"] }

\* What the caller and the host provide: a canvas element or none, whether
\* canvas.getContext('2d') yields a context, which scheduling primitives and
\* ResizeObserver exist, whether options.createWorker yields a worker.
CreateInputs ==
  [canvas : BOOLEAN, context : BOOLEAN,
   requestAnimationFrame : BOOLEAN, cancelAnimationFrame : BOOLEAN,
   ResizeObserver : BOOLEAN, createWorker : BOOLEAN,
   options : OptionPresets]

Resolve(object, key, default) == IF key \in DOMAIN object THEN object[key] ELSE default

ResolvedOptions(input) ==
  [minRenderInterval |-> Resolve(input.options, "minRenderInterval", DEFAULT_MIN_INTERVAL),
   maxDevicePixelRatio |-> Resolve(input.options, "maxDevicePixelRatio", DEFAULT_MAX_DPR),
   computeRenderPayload |-> Resolve(input.options, "computeRenderPayload", "null"),
   onTelemetry |-> Resolve(input.options, "onTelemetry", "null"),
   onDraw |-> Resolve(input.options, "onDraw", "null"),
   onWorkerMessage |-> Resolve(input.options, "onWorkerMessage", "null"),
   ResizeObserver |-> input.ResizeObserver]

\* A reordered initialize(): the 2D context is acquired after the resize
\* observer and the worker have been set up.
ConstructContextLast(input) ==
  IF ~input.canvas THEN
    [failure |-> "canvas", context |-> FALSE, observer |-> FALSE, worker |-> FALSE, scheduled |-> FALSE]
  ELSE IF ~input.requestAnimationFrame \/ ~input.cancelAnimationFrame THEN
    [failure |-> "scheduling", context |-> FALSE, observer |-> FALSE, worker |-> FALSE, scheduled |-> FALSE]
  ELSE IF ~input.createWorker THEN
    [failure |-> "worker", context |-> FALSE, observer |-> input.ResizeObserver, worker |-> FALSE, scheduled |-> FALSE]
  ELSE IF ~input.context THEN
    [failure |-> "context", context |-> FALSE, observer |-> input.ResizeObserver, worker |-> TRUE, scheduled |-> FALSE]
  ELSE
    [failure |-> "", context |-> TRUE, observer |-> input.ResizeObserver, worker |-> TRUE, scheduled |-> TRUE]

\* How far `new FractalEngine(canvas, options)` followed by initialize() gets:
\* the error thrown (if any) and what exists when it is thrown.
Construct(input) ==
  IF ~input.canvas THEN
    [failure |-> "canvas", context |-> FALSE, observer |-> FALSE, worker |-> FALSE, scheduled |-> FALSE]
  ELSE IF ~input.requestAnimationFrame \/ ~input.cancelAnimationFrame THEN
    [failure |-> "scheduling", context |-> FALSE, observer |-> FALSE, worker |-> FALSE, scheduled |-> FALSE]
  ELSE IF ~input.context THEN
    [failure |-> "context", context |-> FALSE, observer |-> FALSE, worker |-> FALSE, scheduled |-> FALSE]
  ELSE IF ~input.createWorker THEN
    [failure |-> "worker", context |-> TRUE, observer |-> input.ResizeObserver, worker |-> FALSE, scheduled |-> FALSE]
  ELSE
    [failure |-> "", context |-> TRUE, observer |-> input.ResizeObserver, worker |-> TRUE, scheduled |-> TRUE]

\* resizeCanvas(): the canvas backing size from its bounding rect and the
\* capped device pixel ratio (rect sizes and ratios are whole numbers here,
\* so Math.floor changes nothing).
ResizedCanvas(rect, maxDevicePixelRatio) ==
  LET deviceRatio == Min(maxDevicePixelRatio, Max(1, rect.devicePixelRatio))
  IN [width |-> Max(1, rect.width * deviceRatio),
      height |-> Max(1, rect.height * deviceRatio)]

\* Placeholder for the arguments while createFractalEngine has not been called.
NothingGiven ==
  [canvas |-> FALSE, context |-> FALSE,
   requestAnimationFrame |-> FALSE, cancelAnimationFrame |-> FALSE,
   ResizeObserver |-> FALSE, createWorker |-> FALSE,
   options |-> [computeRenderPayload |-> "null"]]

\* The argument of the last updateSettings call, before any call.
NoSettings == [called |-> FALSE]

ZeroCalls ==
  [settingsGiven |-> NoSettings,
   frames |-> 0, stopped |-> 0, accepted |-> 0, composer |-> 0, telemetry |-> 0, messageHook |-> 0,
   cancel |-> 0, disconnect |-> 0, terminate |-> 0, destroy |-> 0,
   setPalette |-> 0, invalidPalette |-> 0, rejected |-> 0, settings |-> 0, resizes |-> 0, other |-> 0,
   results |-> 0]

\* Calls and events from outside the engine so far, the frame callbacks apart.
ExternalCalls ==
  calls.setPalette + calls.settings + calls.destroy + calls.resizes + calls.other

\* The mutation categories that have a cooldown.
Categories == {"palette", "type", "variant", "seed", "zoomDirection"}

NoRequest == [maxIterations |-> 0, scale |-> 0, energy |-> 0]
NoEntry ==
  [by |-> "none", previous |-> "null", scene |-> "null", scale |-> 0,
   target |-> 0, baseTarget |-> 0, expired |-> FALSE, converged |-> FALSE]
NoCycle ==
  [ran |-> FALSE, pool |-> {}, cooling |-> {}, fired |-> {}, gaps |-> {},
   updates |-> 0, noops |-> 0, fallback |-> FALSE, breaches |-> {},
   cooldowns |-> [c \in Categories |-> 0]]
\* No focus target has been resolved yet.
NoFocus == [resolved |-> FALSE]

\* The Julia seed of a Director that has not been rendered.
NoJulia == [rendered |-> FALSE]

\* The curator hook has not been rendered.
NoCurator == [rendered |-> FALSE]

\* No palette table has been built yet.
NoLut == [calls |-> 0, built |-> FALSE]

\* No handler has been called by name yet.
NoDirective == [calls |-> 0, handler |-> "none", argument |-> 0, threw |-> FALSE]

\* The worker has coloured no pixel yet.
NoShade == [calls |-> 0, coloured |-> FALSE]

ZeroMarks ==
  [ticks |-> 0, frames |-> 0, handlers |-> 0, cycles |-> 0,
   lastCall |-> "none", calledAt |-> 0]

\* The Director's refs and state when the hook has rendered for the first time
\* and no effect has run yet; initialMode is the random initial fractal type.
Constructed(initialMode) ==
  /\ director = "unmounted"
  /\ hook = [view |-> [scale |-> INITIAL_VIEW_SCALE],
             ambient |-> [mutationElapsed |-> 0, mutationInterval |-> MutationInterval,
                          paletteCooldown |-> 0, variantCooldown |-> 0, seedCooldown |-> 0,
                          zoomDirectionCooldown |-> 0, zoomOutTimer |-> 0, typeCooldown |-> 0,
                          sceneName |-> "null", sceneElapsed |-> 0, sceneDuration |-> 0,
                          sceneTargetScale |-> INITIAL_VIEW_SCALE],
             fractalType |-> initialMode,
             fractalVariant |-> "classic",
             paletteIndex |-> 0,
             autoZoomDirection |-> -1,
             mutationsEnabled |-> TRUE,
             statusMessage |-> 0,
             entry |-> NoEntry]
  /\ request = NoRequest
  /\ cycle = NoCycle
  /\ sinceFired = [c \in Categories |-> -1]
  /\ marks = ZeroMarks
  /\ focus = [calls |-> 0, fractalType |-> "none", variant |-> "none", targetScale |-> 0,
              result |-> NoFocus]
  /\ shade = NoShade
  /\ directive = NoDirective
  /\ lut = NoLut
  /\ curator = NoCurator
  /\ julia = NoJulia

\* The engine, the host and the channel before createFractalEngine is called.
EngineInit ==
  /\ engine = "none"
  /\ failure = ""
  /\ given = NothingGiven
  /\ options = ResolvedOptions(NothingGiven)
  /\ context = FALSE
  /\ worker = FALSE
  /\ resizeObserver = FALSE
  /\ animationId = "null"
  /\ running = FALSE
  /\ paletteBuffer = NoBuffer
  /\ paletteVersion = 0
  /\ paletteSentVersion = -1
  /\ busy = FALSE
  /\ pendingMessage = NoMessage
  /\ lastTimestamp = 0
  /\ telemetry = [runningAverageScaled |-> 167, frames |-> 0, lastFrameMs |-> 0]
  /\ canvas = [width |-> 0, height |-> 0]
  /\ host = [width |-> 1, height |-> 1, devicePixelRatio |-> 2]
  /\ now = 0
  /\ rafCallback = FALSE
  /\ observing = FALSE
  /\ messages = <<>>
  /\ workerPos = 0
  /\ palette = [kind |-> "Float32Array", length |-> 0]
  /\ results = <<>>
  /\ listening = FALSE
  /\ terminated = FALSE
  /\ composed = 0
  /\ queued = {}
  /\ dropped = {}
  /\ draws = <<>>
  /\ calls = ZeroCalls

\* The engine on its own, as the engine tests drive it: the Director stays as
\* constructed and is never mounted.
Init == EngineInit /\ Constructed("mandelbrot")

\* createFractalEngine(canvas, options): constructor, then initialize().
Create(input) ==
  /\ engine = "none"
  /\ given' = input
  /\ LET built == Construct(input)
     IN /\ engine' = IF built.failure = "" THEN "created" ELSE "failed"
        /\ failure' = built.failure
        /\ options' = IF input.canvas THEN ResolvedOptions(input) ELSE options
        /\ context' = built.context
        /\ worker' = built.worker
        /\ resizeObserver' = built.observer
        /\ observing' = built.observer
        /\ listening' = built.worker
        /\ running' = built.scheduled
        /\ animationId' = IF built.scheduled THEN "handle" ELSE "null"
        /\ rafCallback' = built.scheduled
        /\ canvas' = IF built.context
                     THEN ResizedCanvas(host, ResolvedOptions(input).maxDevicePixelRatio)
                     ELSE canvas
  /\ UNCHANGED <<directorVars, utilVars>>
  /\ UNCHANGED <<paletteBuffer, paletteVersion, paletteSentVersion, busy, pendingMessage,
                 lastTimestamp, telemetry, host, now, messages, workerPos, palette,
                 results, terminated, traceVars>>

\* ------------------------------------------------------------- frame loop
RECURSIVE Pow10(_)
Pow10(n) == IF n = 0 THEN 1 ELSE 10 * Pow10(n - 1)

\* telemetry.runningAverageMs is the rational runningAverageScaled / AverageScale:
\* each update multiplies by 0.9 and adds a tenth of the elapsed time, which
\* adds one decimal digit (the initial 16.7 is 167 / 10).
AverageScale(t) == Pow10(t.frames + 1)

\* updateTelemetry(elapsedMs), the fields it assigns.
UpdatedTelemetry(elapsedMs) ==
  [frames |-> telemetry.frames + 1,
   runningAverageScaled |-> telemetry.runningAverageScaled * 9
                            + elapsedMs * AverageScale(telemetry),
   lastFrameMs |-> elapsedMs]

\* this.worker?.postMessage(m) for each m of posted, in order.
Post(posted) == IF worker THEN messages \o posted ELSE messages

DispatchAlways == TRUE

\* renderFrame: `if (this.busy) ... else ...` - a composed request goes out
\* at once only while no request is in flight.
DispatchNow == ~busy

StorePendingKeepOldest(message) ==
  IF pendingMessage = NoMessage THEN message ELSE pendingMessage

\* renderFrame: `this.pendingMessage = message` - the slot is overwritten.
StorePending(message) == message

FramePostsRenderFirst(paletteMessages, renderMessages) == renderMessages \o paletteMessages

\* renderFrame: the posts of one frame in program order - the set-palette block
\* comes before the composer is called and the render message is posted.
FramePosts(paletteMessages, renderMessages) == paletteMessages \o renderMessages

PaletteAlwaysStale == TRUE

\* renderFrame: `this.paletteVersion !== this.paletteSentVersion`.
PaletteStale == paletteVersion # paletteSentVersion

AcceptsEveryFrame(elapsed) == TRUE

\* renderFrame: `if (elapsed < this.options.minRenderInterval) return;`
AcceptsFrame(elapsed) == elapsed >= options.minRenderInterval

\* renderFrame(timestamp): the host fires the scheduled callback delta ms after
\* the previous one; payload says whether the composer returns a payload.
\* A render message carries, besides its wire fields, the number of the
\* request, the palette version current when it was composed and whether its
\* frame sent the palette; the set-palette message carries its version.
RenderFrame(delta, payload) ==
  /\ engine = "created"
  /\ rafCallback
  /\ calls.frames < MaxFrames
  /\ LET timestamp == now + delta
         elapsed == timestamp - lastTimestamp
         accepted == running /\ AcceptsFrame(elapsed)
         drawable == accepted /\ canvas.width # 0 /\ canvas.height # 0 /\ context
         sendPalette == drawable /\ paletteBuffer # NoBuffer /\ PaletteStale
         callsComposer == drawable /\ options.computeRenderPayload = "function"
         composes == callsComposer /\ payload
         paletteMessage == [type |-> "set-palette", colors |-> paletteBuffer,
                            paletteVersion |-> paletteVersion]
         message == [type |-> "render", width |-> canvas.width, height |-> canvas.height,
                     id |-> composed + 1,                 \* instrumentation
                     palettePending |-> sendPalette,      \* instrumentation
                     paletteVersion |-> IF paletteBuffer # NoBuffer
                                        THEN paletteVersion ELSE 0]
         dispatch == composes /\ DispatchNow
         store == composes /\ ~DispatchNow
     IN /\ callsComposer \/ payload    \* no composer call: one step, not two
        /\ now' = timestamp
        /\ rafCallback' = running
        /\ animationId' = IF running THEN "handle" ELSE animationId
        /\ lastTimestamp' = IF accepted THEN timestamp ELSE lastTimestamp
        /\ paletteSentVersion' = IF sendPalette THEN paletteVersion ELSE paletteSentVersion
        /\ messages' = Post(FramePosts(IF sendPalette THEN <<paletteMessage>> ELSE <<>>,
                                       IF dispatch THEN <<message>> ELSE <<>>))
        /\ busy' = (busy \/ dispatch)
        /\ pendingMessage' = IF store THEN StorePending(message) ELSE pendingMessage
        /\ telemetry' = IF composes THEN UpdatedTelemetry(elapsed) ELSE telemetry
        /\ composed' = IF composes THEN composed + 1 ELSE composed
        /\ queued' = IF store THEN queued \cup {pendingMessage'.id} ELSE queued
        /\ dropped' = IF store /\ pendingMessage # NoMessage
                           /\ pendingMessage' # pendingMessage
                      THEN dropped \cup {pendingMessage.id} ELSE dropped
        /\ calls' = [calls EXCEPT
                       !.frames = @ + 1,
                       !.stopped = IF running THEN @ ELSE @ + 1,
                       !.accepted = IF accepted THEN @ + 1 ELSE @,
                       !.composer = IF callsComposer THEN @ + 1 ELSE @,
                       !.telemetry = IF composes /\ options.onTelemetry = "function"
                                     THEN @ + 1 ELSE @]
  /\ UNCHANGED <<directorVars, utilVars>>
  /\ UNCHANGED <<engine, failure, given, options, context, worker, resizeObserver, running,
                 paletteBuffer, paletteVersion, canvas, host, observing,
                 workerPos, palette, results, listening, terminated, draws>>

\* ---------------------------------------------------------- compute channel
\* The worker (self.onmessage) takes the next posted message.  set-palette
\* replaces the retained palette; render is answered with one render-result,
\* whose buffer is null when the palette is empty or a dimension is zero.
WorkerComputesAlways(data) ==
  [type |-> "render-result", width |-> data.width, height |-> data.height,
   buffer |-> "pixels", id |-> data.id]

\* A result that carries the dimensions the wrong way round.
WorkerSwapsDimensions(data) ==
  [type |-> "render-result", width |-> data.height, height |-> data.width,
   buffer |-> IF palette.length = 0 \/ data.width = 0 \/ data.height = 0
              THEN "null" ELSE "pixels",
   id |-> data.id]

WorkerResult(data) ==
  [type |-> "render-result", width |-> data.width, height |-> data.height,
   buffer |-> IF palette.length = 0 \/ data.width = 0 \/ data.height = 0
              THEN "null" ELSE "pixels",
   id |-> data.id]

WorkerStep ==
  /\ ~terminated
  /\ workerPos < Len(messages)
  /\ LET data == messages[workerPos + 1]
     IN /\ workerPos' = workerPos + 1
        /\ palette' = IF data.type = "set-palette" THEN data.colors ELSE palette
        /\ results' = IF data.type = "render"
                      THEN Append(results, WorkerResult(data)) ELSE results
  /\ UNCHANGED <<directorVars, utilVars>>
  /\ UNCHANGED <<engine, failure, given, engineVars, hostVars, messages, listening, terminated,
                 traceVars>>

DrawsAnyResult(message) == context

\* handleWorkerMessage: `if (targetContext && message.buffer)` - a result is
\* drawn only when it carries a buffer.
DrawsResult(message) == context /\ message.buffer # "null"

BusyNeverRestored == FALSE

\* handleWorkerMessage: busy after a render-result - cleared, and set again
\* when a pending request is dispatched.
BusyAfterResult == pendingMessage # NoMessage

MessageHookNeverCalled == FALSE

\* handleWorkerMessage: `this.options.onWorkerMessage?.(message)` - the hook
\* is called when one is set.
MessageHookCalled == options.onWorkerMessage = "function"

\* handleWorkerMessage(event) for event.data = message.
HandleWorkerMessage(message) ==
  IF message.type # "render-result"
  THEN /\ calls' = [calls EXCEPT
                      !.messageHook = IF MessageHookCalled THEN @ + 1 ELSE @,
                      !.other = @ + 1]
       /\ UNCHANGED <<busy, pendingMessage, messages, draws>>
  ELSE /\ draws' = IF DrawsResult(message)
                   THEN Append(draws, [width |-> message.width, height |-> message.height,
                                       id |-> message.id,
                                       via |-> IF options.onDraw = "function"
                                               THEN "onDraw" ELSE "putImageData"])
                   ELSE draws
       /\ busy' = BusyAfterResult
       /\ pendingMessage' = NoMessage
       /\ messages' = IF pendingMessage # NoMessage THEN Post(<<pendingMessage>>)
                      ELSE messages
       /\ calls' = [calls EXCEPT !.results = @ + 1]

\* The channel delivers the worker's next result to the engine's listener.
DeliverResult ==
  /\ listening
  /\ results # <<>>
  /\ HandleWorkerMessage(Head(results))
  /\ results' = Tail(results)
  /\ UNCHANGED <<directorVars, utilVars>>
  /\ UNCHANGED <<engine, failure, given, options, context, worker, resizeObserver, animationId,
                 running, paletteBuffer, paletteVersion, paletteSentVersion, lastTimestamp,
                 telemetry, hostVars, workerPos, palette, listening, terminated,
                 composed, queued, dropped>>

\* The channel delivers a message that is not a render-result.
OtherMessage ==
  /\ listening
  /\ ExternalCalls < MaxCalls
  /\ HandleWorkerMessage([type |-> "progress"])
  /\ UNCHANGED <<directorVars, utilVars>>
  /\ UNCHANGED <<engine, failure, given, options, context, worker, resizeObserver, animationId,
                 running, paletteBuffer, paletteVersion, paletteSentVersion, lastTimestamp,
                 telemetry, hostVars, workerPos, palette, results, listening, terminated,
                 composed, queued, dropped>>

\* ------------------------------------------------------------------ palette
PaletteInputs ==
  { [kind |-> "Float32Array", length |-> 0],
    [kind |-> "Float32Array", length |-> 3],
    [kind |-> "Array", length |-> 3] }

AcceptsAnything(buffer) == TRUE

\* setPalette: `buffer instanceof Float32Array`.
AcceptsPalette(buffer) == buffer.kind = "Float32Array"

\* setPalette(buffer): throws on anything but a Float32Array, else stores the
\* buffer and bumps the version.  calls.invalidPalette counts the calls whose
\* argument is not a Float32Array, calls.rejected the calls that threw.
SetPalette(buffer) ==
  /\ engine = "created"
  /\ ExternalCalls < MaxCalls
  /\ IF AcceptsPalette(buffer)
     THEN /\ paletteBuffer' = buffer
          /\ paletteVersion' = paletteVersion + 1
     ELSE UNCHANGED <<paletteBuffer, paletteVersion>>
  /\ calls' = [calls EXCEPT
                 !.setPalette = @ + 1,
                 !.invalidPalette = IF buffer.kind # "Float32Array" THEN @ + 1 ELSE @,
                 !.rejected = IF AcceptsPalette(buffer) THEN @ ELSE @ + 1]
  /\ UNCHANGED <<directorVars, utilVars>>
  /\ UNCHANGED <<engine, failure, given, options, context, worker, resizeObserver, animationId,
                 running, paletteSentVersion, busy, pendingMessage, lastTimestamp,
                 telemetry, hostVars, channelVars, composed, queued, dropped, draws>>

\* ----------------------------------------------------------------- settings
\* Partial settings objects handed to updateSettings: only the keys present
\* are looked at (hasOwnProperty).
SettingsInputs ==
  { [minRenderInterval |-> 0, maxDevicePixelRatio |-> 2,
     computeRenderPayload |-> "function", onTelemetry |-> "function"],
    [minRenderInterval |-> -1, maxDevicePixelRatio |-> 0,
     computeRenderPayload |-> "object", onDraw |-> "null"],
    [minRenderInterval |-> 2, onWorkerMessage |-> "function"] }

\* updateSettings(settings), with updateConfig(config) inlined: the interval is
\* floored at 0, the pixel-ratio cap at 1 and the canvas is resized for it; a
\* render callback that is not a function becomes null.
\* The options a new engine constructed with these settings would have.
RecreatedOptions(settings) ==
  ResolvedOptions([options |-> settings, ResizeObserver |-> options.ResizeObserver])

UpdatedOptions(settings) ==
  [minRenderInterval |-> IF "minRenderInterval" \in DOMAIN settings
                         THEN Max(0, settings.minRenderInterval)
                         ELSE options.minRenderInterval,
   maxDevicePixelRatio |-> IF "maxDevicePixelRatio" \in DOMAIN settings
                           THEN Max(1, settings.maxDevicePixelRatio)
                           ELSE options.maxDevicePixelRatio,
   computeRenderPayload |-> IF "computeRenderPayload" \in DOMAIN settings
                            THEN (IF settings.computeRenderPayload = "function"
                                  THEN "function" ELSE "null")
                            ELSE options.computeRenderPayload,
   onTelemetry |-> Resolve(settings, "onTelemetry", options.onTelemetry),
   onDraw |-> Resolve(settings, "onDraw", options.onDraw),
   onWorkerMessage |-> Resolve(settings, "onWorkerMessage", options.onWorkerMessage),
   ResizeObserver |-> options.ResizeObserver]

UpdateSettings(settings) ==
  /\ engine = "created"
  /\ ExternalCalls < MaxCalls
  /\ options' = UpdatedOptions(settings)
  /\ canvas' = IF "maxDevicePixelRatio" \in DOMAIN settings
               THEN ResizedCanvas(host, UpdatedOptions(settings).maxDevicePixelRatio)
               ELSE canvas
  /\ calls' = [calls EXCEPT !.settings = @ + 1, !.settingsGiven = settings]
  /\ UNCHANGED <<directorVars, utilVars>>
  /\ UNCHANGED <<engine, failure, given, context, worker, resizeObserver, animationId, running,
                 paletteBuffer, paletteVersion, paletteSentVersion, busy, pendingMessage,
                 lastTimestamp, telemetry, host, now, rafCallback, observing,
                 channelVars, composed, queued, dropped, draws>>

\* --------------------------------------------------------------------- host
Rects == [width : {1, 2}, height : {1}, devicePixelRatio : {2}]

\* The canvas is laid out anew (or moves to a display with another pixel
\* ratio); an attached ResizeObserver calls resizeCanvas().
Resize(rect) ==
  /\ engine = "created"
  /\ ExternalCalls < MaxCalls
  /\ rect # host
  /\ host' = rect
  /\ canvas' = IF observing THEN ResizedCanvas(rect, options.maxDevicePixelRatio) ELSE canvas
  /\ calls' = [calls EXCEPT !.resizes = @ + 1]
  /\ UNCHANGED <<directorVars, utilVars>>
  /\ UNCHANGED <<engine, failure, given, engineVars, now, rafCallback, observing,
                 channelVars, composed, queued, dropped, draws>>

\* ------------------------------------------------------------------ destroy
DestroyCancelsAlways == TRUE

\* destroy: `if (this.animationId !== null)` guards cancelAnimationFrame.
DestroyCancels == animationId # "null"

ListenerKept == listening

\* destroy: worker.removeEventListener('message', this.handleWorkerMessage).
ListenerAfterDestroy == FALSE

PendingSurvivesDestroy == pendingMessage

\* destroy: `this.pendingMessage = null`.
PendingAfterDestroy == NoMessage

\* destroy().  honoured: whether the cancelAnimationFrame primitive still
\* prevents the scheduled callback; a callback the host has already taken
\* off its queue runs all the same.
Destroy(honoured) ==
  /\ engine = "created"
  /\ ExternalCalls < MaxCalls
  /\ honoured \/ DestroyCancels
  /\ running' = FALSE
  /\ animationId' = "null"
  /\ rafCallback' = IF DestroyCancels /\ honoured THEN FALSE ELSE rafCallback
  /\ resizeObserver' = FALSE
  /\ observing' = IF resizeObserver THEN FALSE ELSE observing
  /\ worker' = FALSE
  /\ listening' = IF worker THEN ListenerAfterDestroy ELSE listening
  /\ terminated' = (terminated \/ worker)
  /\ context' = FALSE
  /\ pendingMessage' = PendingAfterDestroy
  /\ busy' = FALSE
  /\ calls' = [calls EXCEPT
                 !.destroy = @ + 1,
                 !.cancel = IF DestroyCancels THEN @ + 1 ELSE @,
                 !.disconnect = IF resizeObserver THEN @ + 1 ELSE @,
                 !.terminate = IF worker THEN @ + 1 ELSE @]
  /\ UNCHANGED <<directorVars, utilVars>>
  /\ UNCHANGED <<engine, failure, given, options, paletteBuffer, paletteVersion,
                 paletteSentVersion, lastTimestamp, telemetry, canvas, host, now,
                 messages, workerPos, palette, results, composed, queued, dropped, draws>>

\* ------------------------------------------------------------ specification
Next ==
  \/ \E input \in CreateInputs : Create(input)
  \/ \E delta \in Deltas, payload \in BOOLEAN : RenderFrame(delta, payload)
  \/ WorkerStep
  \/ DeliverResult
  \/ OtherMessage
  \/ \E buffer \in PaletteInputs : SetPalette(buffer)
  \/ \E settings \in SettingsInputs : UpdateSettings(settings)
  \/ \E rect \in Rects : Resize(rect)
  \/ \E honoured \in BOOLEAN : Destroy(honoured)

Spec == Init /\ [][Next]_vars

\* =================================================================== claims
RenderIndices == {i \in DOMAIN messages : messages[i].type = "render"}
PaletteIndices == {i \in DOMAIN messages : messages[i].type = "set-palette"}

\* Render requests posted to the channel and not yet answered by a
\* render-result the engine has handled.
InFlight == Cardinality(RenderIndices) - calls.results

\* C1: the pending slot holds the request composed by the most recent frame
\* that composed one, and a request that was overwritten in the slot is never
\* posted to the channel.
C1_NewestPendingWins ==
  /\ pendingMessage # NoMessage =>
       /\ pendingMessage.type = "render"
       /\ pendingMessage.id = composed
       /\ busy
  /\ \A i \in RenderIndices : messages[i].id \notin dropped

\* The channel has answered nothing; three frames composed a request: the
\* first is in flight, the second was dropped, the third is pending.
C1_Witness ==
  /\ calls.results = 0
  /\ results = <<>>
  /\ composed = 3
  /\ dropped = {2}
  /\ pendingMessage # NoMessage
  /\ pendingMessage.id = 3

\* C2: at most one render request is posted to the channel and unanswered.
C2_SingleInFlight == InFlight \in {0, 1}

\* A second request is in flight after the first was answered, with a
\* setPalette and an updateSettings call in the run.
C2_Witness ==
  /\ InFlight = 1
  /\ calls.results >= 1
  /\ calls.setPalette >= 1
  /\ calls.settings >= 1

\* C3: every render request composed while palette version v was current is
\* preceded on the channel by the set-palette message of version v.
C3_PaletteBeforeRender ==
  \A i \in RenderIndices :
    messages[i].paletteVersion > 0 =>
      \E j \in PaletteIndices :
        /\ j < i
        /\ messages[j].paletteVersion = messages[i].paletteVersion

\* A request composed on a frame that sent the palette was stored as pending
\* and posted later, after the palette message.
C3_Witness ==
  \E i \in RenderIndices :
    /\ messages[i].palettePending
    /\ messages[i].id \in queued
    /\ \E j \in PaletteIndices : j < i

\* C4: a render-result step posts the pending request, empties the slot and
\* leaves the engine busy; without a pending request it leaves the engine idle
\* and posts nothing.  A request composed while idle is posted in that frame.
C4_ResultDispatchesPending ==
  /\ [][calls'.results = calls.results + 1 =>
          IF pendingMessage # NoMessage
          THEN /\ messages' = Append(messages, pendingMessage)
               /\ pendingMessage' = NoMessage
               /\ busy'
          ELSE /\ messages' = messages
               /\ pendingMessage' = NoMessage
               /\ ~busy']_vars
  /\ [][(~busy /\ composed' = composed + 1) =>
          /\ busy'
          /\ pendingMessage' = pendingMessage
          /\ Len(messages') > Len(messages)
          /\ messages'[Len(messages')].type = "render"
          /\ messages'[Len(messages')].id = composed']_vars

\* A result was handled while a request was pending: that request is on the
\* channel and the engine is busy with it.
C4_Witness ==
  /\ calls.results = 1
  /\ busy
  /\ pendingMessage = NoMessage
  /\ \E i \in RenderIndices : messages[i].id \in queued

\* C5: a render-result with a buffer is drawn exactly once, with its width and
\* height, through onDraw when set and putImageData otherwise; a result with a
\* null buffer is not drawn.  So each draw belongs to one request of its own
\* and has the dimensions that request was posted with.
C5_OneDrawPerResult ==
  /\ [][calls'.results = calls.results + 1 =>
          IF Head(results).buffer # "null"
          THEN draws' = Append(draws,
                   [width |-> Head(results).width, height |-> Head(results).height,
                    id |-> Head(results).id,
                    via |-> IF options.onDraw = "function"
                            THEN "onDraw" ELSE "putImageData"])
          ELSE draws' = draws]_vars
  /\ [](/\ Len(draws) <= calls.results
        /\ \A a, b \in DOMAIN draws : draws[a].id = draws[b].id => a = b
        /\ \A a \in DOMAIN draws :
             \E i \in RenderIndices :
               /\ messages[i].id = draws[a].id
               /\ messages[i].width = draws[a].width
               /\ messages[i].height = draws[a].height)

\* One result came with a null buffer and was skipped, another was drawn.
C5_Witness ==
  /\ Len(draws) = 1
  /\ calls.results = 2

\* C6: once destroy() has returned nothing is posted to the channel, nothing
\* is drawn, and neither the composer nor the telemetry or message hook is
\* called.
C6_NothingAfterDestroy ==
  [][calls.destroy >= 1 =>
       /\ messages' = messages
       /\ draws' = draws
       /\ calls'.composer = calls.composer
       /\ calls'.telemetry = calls.telemetry
       /\ calls'.messageHook = calls.messageHook]_vars

\* destroy() came while a request was in flight; the worker answered it all
\* the same and a frame callback that was already scheduled fired afterwards.
C6_Witness ==
  /\ calls.destroy >= 1
  /\ calls.stopped >= 1
  /\ InFlight = 1
  /\ results # <<>>

\* C7: a second destroy() changes no engine field and makes no cancel,
\* disconnect or terminate call.
C7_DestroyIdempotent ==
  [][(calls.destroy >= 1 /\ calls'.destroy = calls.destroy + 1) =>
       /\ UNCHANGED engineVars
       /\ UNCHANGED <<rafCallback, observing, listening, terminated>>
       /\ calls'.cancel = calls.cancel
       /\ calls'.disconnect = calls.disconnect
       /\ calls'.terminate = calls.terminate]_vars

\* destroy() was called twice on an engine that had a frame scheduled, a
\* resize observer and a worker.
C7_Witness ==
  /\ calls.destroy = 2
  /\ calls.cancel = 1
  /\ calls.disconnect = 1
  /\ calls.terminate = 1

\* C8: createFractalEngine without a canvas, without an obtainable context or
\* without the scheduling primitives throws, and then no worker exists, no
\* resize observer observes the canvas and no frame is scheduled.
C8_ConstructionAllOrNothing ==
  (engine # "none" /\ (~given.canvas \/ ~given.context
                       \/ ~given.requestAnimationFrame \/ ~given.cancelAnimationFrame)) =>
    /\ engine = "failed"
    /\ failure \in {"canvas", "context", "scheduling"}
    /\ ~worker /\ ~listening
    /\ ~resizeObserver /\ ~observing
    /\ ~running /\ ~rafCallback /\ animationId = "null"

\* Construction failed for want of a context although a ResizeObserver and a
\* worker were there to be set up.
C8_Witness ==
  /\ engine = "failed"
  /\ failure = "context"
  /\ given.ResizeObserver
  /\ given.createWorker

\* C9: a setPalette call whose argument is not a Float32Array throws and
\* leaves paletteBuffer and paletteVersion as they were; every set-palette
\* message carries a Float32Array.
C9_PaletteTypeChecked ==
  /\ [][calls'.invalidPalette = calls.invalidPalette + 1 =>
          /\ calls'.rejected = calls.rejected + 1
          /\ UNCHANGED <<paletteBuffer, paletteVersion>>]_vars
  /\ [](\A j \in PaletteIndices : messages[j].colors.kind = "Float32Array")

\* A call was rejected, a palette set by another call went to the channel.
C9_Witness ==
  /\ calls.rejected = 1
  /\ paletteVersion = 1
  /\ PaletteIndices # {}

\* C10 (as claimed): every accepted frame adds one to the telemetry frame
\* counter.
C10_TelemetryEveryAcceptedFrame == telemetry.frames = calls.accepted

\* ==================================================== the Scene Director
\* ----------------------------------------------------------------- bounds
MaxTicks == 4           \* ticks of the hook left to itself
MaxDirectorTicks == 2   \* ticks of the hook with handlers and frames
MaxHandlerCalls == 1    \* handler calls next to those ticks
MaxComposedFrames == 1  \* composed frames next to those ticks

\* Seconds (in tenths) between two Director ticks.
TickDeltas == {60, 100}

\* Ticks next to a caller who pauses and resumes the mutations, and the
\* seconds between them: the longer one alone reaches the mutation interval.
MaxPausedTicks == 3
PausedTickDeltas == {60, 130}

\* ---------------------------------------------------------- configuration
FRACTAL_VARIANTS == <<"classic", "cubic", "burning-ship", "perpendicular">>
PaletteCount == 6

\* Scale factors of the source on the logarithmic grid.
SeventyPercent == -155            \* currentScale * 0.7
ZoomInFactor == -97               \* view.scale * 0.8
ZoomOutFactor == 97               \* view.scale * 1.25
SceneCeiling == MAX_VIEW_SCALE - 22      \* MAX_VIEW_SCALE * 0.95
OutwardCeiling == MAX_VIEW_SCALE - 97    \* MAX_VIEW_SCALE * 0.8
DeepCeiling == MAX_VIEW_SCALE - 301      \* MAX_VIEW_SCALE * 0.5
\* |ln(a / b)| < 0.08 on the grid: 0.08 / ln(10) = 0.03474 decades.
Tolerance == 35

SCENE_DEFINITIONS ==
  << [name |-> "deep-dive", durationRange |-> <<180, 260>>, zoomDirection |-> -1,
     targetScaleRange |-> <<-3745, -2921>>,
     variantBias |-> <<"classic", "burning-ship">>, paletteBias |-> <<0, 2, 3>>],
    [name |-> "breathing-bloom", durationRange |-> <<160, 240>>, zoomDirection |-> 1,
     targetScaleRange |-> <<-97, 230>>,
     variantBias |-> <<"cubic", "perpendicular">>, paletteBias |-> <<1, 4, 5>>],
    [name |-> "cosmic-orbit", durationRange |-> <<200, 300>>, zoomDirection |-> -1,
     targetScaleRange |-> <<-2398, -1745>>,
     variantBias |-> <<"classic">>, paletteBias |-> <<2, 3, 5>>] >>

\* What Math.random() returns, in hundredths: 0, or a value just under 1.
Random == {0, 99}

clamp(value, min, max) == Min(max, Max(min, value))

Range(sequence) == {sequence[i] : i \in DOMAIN sequence}

PickAnyScene(excludeName) == SCENE_DEFINITIONS

\* pickSceneDefinition(excludeName): the options pickFrom chooses among.
pickSceneDefinition(excludeName) ==
  IF excludeName # "null"
  THEN SelectSeq(SCENE_DEFINITIONS, LAMBDA scene : scene.name # excludeName)
  ELSE SCENE_DEFINITIONS

\* randomRange(min, max) of times, for Math.random() = r.
randomRange(min, max, r) == min + (r * (max - min)) \div 100

\* randomRange(...range) of scales: the lower end for r = 0 and, to the
\* accuracy of the grid, the upper end for r just under 1.
ScaleDrawn(range, r) == IF r = 0 THEN range[1] ELSE range[2]

\* pickFrom(array) for Math.random() = r.
pickFrom(array, r) == array[((r * Len(array)) \div 100) + 1]

\* What the random calls of one applyScene return when each of them returns
\* r: the duration, the base target, and whether the bias rolls (r < 0.7,
\* r < 0.65) succeed.
SceneDraw(sceneDef, r) ==
  [duration |-> randomRange(sceneDef.durationRange[1], sceneDef.durationRange[2], r),
   baseTarget |-> ScaleDrawn(sceneDef.targetScaleRange, r),
   r |-> r,
   biased |-> r < 65]

\* pickFrom(sceneDefs) and the draws of the entry that follows it, every
\* random call of the two returning the same r.
SceneEntry(sceneDefs, r) ==
  [sceneDef |-> pickFrom(sceneDefs, r), draw |-> SceneDraw(pickFrom(sceneDefs, r), r)]

SceneEntries(sceneDefs) == {SceneEntry(sceneDefs, r) : r \in Random}

\* No scene is entered.
NoDraws == [sceneDef |-> "none"]

Converged(scale, target) ==
  LET ratio == scale - Max(target, -12000)
  IN (IF ratio < 0 THEN -ratio ELSE ratio) < Tolerance

\* Whether the active scene of d has run out or has been marked as arrived.
Expired(d) == d.ambient.sceneElapsed >= d.ambient.sceneDuration

TargetUnclamped(desiredScale) == desiredScale

\* applyScene: the target scale of the entered scene.
SceneTargetScale(desiredScale) == clamp(desiredScale, MIN_VIEW_SCALE, SceneCeiling)

\* A desired scale that ignores the scene's drawn target.
DesiredSeventyPercent(currentScale, baseTarget) == currentScale + SeventyPercent

\* applyScene: Math.min(currentScale * 0.7, baseTarget).
DesiredScale(currentScale, baseTarget) == Min(currentScale + SeventyPercent, baseTarget)

\* applyScene(sceneDef), called by `by`; the statusMessage counts fragments.
applyScene(d, chosen, by) ==
  LET sceneDef == chosen.sceneDef
      draw == chosen.draw
      currentScale == d.view.scale
      desiredScale == DesiredScale(currentScale, draw.baseTarget)
      target == SceneTargetScale(desiredScale)
      nextDirection == sceneDef.zoomDirection
      biasedPalette == pickFrom(sceneDef.paletteBias, draw.r)
      nextPalette == IF biasedPalette = d.paletteIndex
                     THEN (biasedPalette + 1) % PaletteCount
                     ELSE biasedPalette
      variantShift == d.fractalType = "mandelbrot" /\ draw.biased
  IN [d EXCEPT
        !.ambient = [@ EXCEPT
           !.sceneName = sceneDef.name,
           !.sceneElapsed = 0,
           !.sceneDuration = draw.duration,
           !.sceneTargetScale = target,
           !.zoomOutTimer = IF nextDirection = 1 THEN ZOOM_OUT_MAX_SECONDS ELSE 0,
           !.zoomDirectionCooldown = IF nextDirection = 1 THEN ZOOM_OUT_MAX_SECONDS
                                     ELSE ZOOM_DIRECTION_COOLDOWN_SECONDS,
           !.paletteCooldown = (PALETTE_COOLDOWN_SECONDS * 6) \div 10,
           !.variantCooldown = (VARIANT_COOLDOWN_SECONDS * 75) \div 100,
           !.typeCooldown = (FRACTAL_TYPE_COOLDOWN_SECONDS * 75) \div 100,
           !.mutationElapsed = 0,
           !.mutationInterval = MutationInterval],
        !.autoZoomDirection = nextDirection,
        !.paletteIndex = IF draw.biased THEN nextPalette ELSE @,
        !.fractalVariant = IF variantShift THEN pickFrom(sceneDef.variantBias, draw.r) ELSE @,
        !.statusMessage = 1 + (IF draw.biased THEN 1 ELSE 0) + (IF variantShift THEN 1 ELSE 0),
        !.entry = [by |-> by,
                   previous |-> d.ambient.sceneName, scene |-> sceneDef.name,
                   scale |-> currentScale, target |-> target,
                   baseTarget |-> draw.baseTarget,
                   expired |-> Expired(d),
                   converged |-> Converged(d.view.scale, d.ambient.sceneTargetScale)]]

\* A scene entered by an operation that first realigns the view: whether the
\* scene it replaces had expired or converged is taken from the state before
\* the operation began.
Entered(d, before) ==
  [d EXCEPT !.entry.expired = Expired(before),
            !.entry.converged = Converged(before.view.scale,
                                          before.ambient.sceneTargetScale)]

\* An alignment that resets the scale whatever its options say.
AlignResetsAlways(d, resetScale) ==
  [d EXCEPT
     !.view = [@ EXCEPT !.scale = INITIAL_VIEW_SCALE],
     !.ambient = [@ EXCEPT
        !.zoomOutTimer = 0,
        !.zoomDirectionCooldown = ZOOM_DIRECTION_COOLDOWN_SECONDS,
        !.sceneTargetScale = INITIAL_VIEW_SCALE],
     !.autoZoomDirection = -1]

\* alignViewToType(type, {resetScale}): with resetScale the view returns to the
\* initial framing; without it only the centre, which is not modelled, moves.
alignViewToType(d, resetScale) ==
  IF resetScale
  THEN [d EXCEPT
          !.view = [@ EXCEPT !.scale = INITIAL_VIEW_SCALE],
          !.ambient = [@ EXCEPT
             !.zoomOutTimer = 0,
             !.zoomDirectionCooldown = ZOOM_DIRECTION_COOLDOWN_SECONDS,
             !.sceneTargetScale = INITIAL_VIEW_SCALE],
          !.autoZoomDirection = -1]
  ELSE d

\* -------------------------------------------------------- Mutation Engine
Cooldown(d, category) ==
  CASE category = "palette" -> d.ambient.paletteCooldown
    [] category = "type" -> d.ambient.typeCooldown
    [] category = "variant" -> d.ambient.variantCooldown
    [] category = "seed" -> d.ambient.seedCooldown
    [] category = "zoomDirection" -> d.ambient.zoomDirectionCooldown

\* The cooldown a category is configured with.
Configured(category) ==
  CASE category = "palette" -> PALETTE_COOLDOWN_SECONDS
    [] category = "type" -> FRACTAL_TYPE_COOLDOWN_SECONDS
    [] category = "variant" -> VARIANT_COOLDOWN_SECONDS
    [] category = "seed" -> JULIA_COOLDOWN_SECONDS
    [] category = "zoomDirection" -> ZOOM_DIRECTION_COOLDOWN_SECONDS

\* The guarded category an action of the pool belongs to ("" for the others).
CategoryOf(action) ==
  CASE action = "mutatePalette" -> "palette"
    [] action = "toggleFractalType" -> "type"
    [] action = "mutateVariant" -> "variant"
    [] action = "reseedJulia" -> "seed"
    [] action = "mutateZoomDirection" -> "zoomDirection"
    [] OTHER -> ""

\* One run of the engine so far: the Director state, the number of status
\* fragments pushed, the guarded categories fired and the actions that did nothing.
Fired(m, category) ==
  [m EXCEPT !.updates = @ + 1, !.fired = @ \cup {category}]

Pushed(m) == [m EXCEPT !.updates = @ + 1]

mutatePalette(m, r) ==
  LET drawn == (r * PaletteCount) \div 100
      nextPalette == IF drawn = m.d.paletteIndex THEN (drawn + 1) % PaletteCount ELSE drawn
  IN Fired([m EXCEPT !.d.paletteIndex = nextPalette,
                     !.d.ambient.paletteCooldown = PALETTE_COOLDOWN_SECONDS],
           "palette")

toggleFractalType(m, chosen) ==
  LET nextType == IF m.d.fractalType = "mandelbrot" THEN "julia" ELSE "mandelbrot"
      aligned == alignViewToType([m.d EXCEPT !.fractalType = nextType], TRUE)
      cooled == [aligned EXCEPT !.ambient.typeCooldown = FRACTAL_TYPE_COOLDOWN_SECONDS]
  IN Fired([m EXCEPT !.d = Entered(applyScene(cooled, chosen, "toggleFractalType"), m.d)],
           "type")

mutateVariant(m, r) ==
  LET currentVariant == m.d.fractalVariant
      variants == SelectSeq(FRACTAL_VARIANTS, LAMBDA variant : variant # currentVariant)
      nextVariant == pickFrom(variants, r)
  IN Fired([m EXCEPT !.d.fractalVariant = nextVariant,
                     !.d.ambient.variantCooldown = VARIANT_COOLDOWN_SECONDS],
           "variant")

reseedJulia(m) ==
  IF m.d.ambient.seedCooldown > 0
  THEN [m EXCEPT !.noops = @ + 1]
  ELSE Fired([m EXCEPT !.d = alignViewToType(
                               [@ EXCEPT !.ambient.seedCooldown = JULIA_COOLDOWN_SECONDS],
                               FALSE)],
             "seed")

OutwardNeverBlocked(scale) == FALSE

\* mutateZoomDirection and handleAutoZoomDirectionToggle:
\* `viewRef.current.scale >= MAX_VIEW_SCALE * 0.8` turns an outward flip inward.
OutwardBlocked(scale) == scale >= OutwardCeiling

mutateZoomDirection(m, r) ==
  IF m.d.ambient.zoomDirectionCooldown > 0
  THEN [m EXCEPT !.noops = @ + 1]
  ELSE LET drawn == IF r > 78 THEN 1 ELSE -1
           nextDirection == IF drawn = 1 /\ OutwardBlocked(m.d.view.scale) THEN -1 ELSE drawn
       IN Fired([m EXCEPT
                   !.d.autoZoomDirection = nextDirection,
                   !.d.ambient.zoomOutTimer =
                      IF nextDirection = 1 THEN ZOOM_OUT_MAX_SECONDS ELSE 0,
                   !.d.ambient.zoomDirectionCooldown =
                      IF nextDirection = 1 THEN ZOOM_OUT_MAX_SECONDS
                      ELSE ZOOM_DIRECTION_COOLDOWN_SECONDS],
                "zoomDirection")

\* randomRange(0.12, 0.28) on the grid.
DeepenFactor(r) == ScaleDrawn(<<-921, -553>>, r)

refocusDeeper(m, r) ==
  Pushed([m EXCEPT !.d.ambient.sceneTargetScale =
                      clamp(@ + DeepenFactor(r), MIN_VIEW_SCALE, DeepCeiling)])

\* mutateZoomSpeed, shiftCore and mutateAmbientRhythm change the zoom speed,
\* the centre and the oscillator speeds, which are not modelled, and push
\* their fragment.
RunAction(action, m, r, chosen) ==
  CASE action = "mutatePalette" -> mutatePalette(m, r)
    [] action = "toggleFractalType" -> toggleFractalType(m, chosen)
    [] action = "mutateVariant" -> mutateVariant(m, r)
    [] action = "reseedJulia" -> reseedJulia(m)
    [] action = "mutateZoomDirection" -> mutateZoomDirection(m, r)
    [] action = "refocusDeeper" -> refocusDeeper(m, r)
    [] OTHER -> Pushed(m)

\* The condition under which runFractalMutation pushes a guarded action to
\* choices, evaluated on the Director state d.
GuardHolds(action, d) ==
  CASE action = "mutatePalette" -> d.ambient.paletteCooldown <= 0
    [] action = "toggleFractalType" -> d.ambient.typeCooldown <= 0
    [] action = "mutateVariant" ->
         d.fractalType = "mandelbrot" /\ d.ambient.variantCooldown <= 0
    [] action = "reseedJulia" -> d.fractalType = "julia" /\ d.ambient.seedCooldown <= 0
    [] action = "mutateZoomDirection" -> d.ambient.zoomDirectionCooldown <= 0
    [] OTHER -> TRUE

\* Whether the action, called at d, gets past its own early return:
\* reseedJulia and mutateZoomDirection return while their cooldown runs.
TakesEffect(action, d) ==
  CASE action = "reseedJulia" -> d.ambient.seedCooldown <= 0
    [] action = "mutateZoomDirection" -> d.ambient.zoomDirectionCooldown <= 0
    [] OTHER -> TRUE

\* action() in the loop over choices: the action runs on the state its
\* predecessors left; an action that takes effect while its guard is false
\* is recorded in breaches.
Executed(action, m, r, chosen) ==
  [RunAction(action, m, r, chosen) EXCEPT
     !.breaches = IF TakesEffect(action, m.d) /\ ~GuardHolds(action, m.d)
                  THEN @ \cup {action} ELSE @]

Optional(condition, action) == IF condition THEN <<action>> ELSE <<>>

\* reseedJulia enters the pool whenever it did not fire directly.
SeedPooled(d, seedFired) == ~seedFired

\* choices, in the order runFractalMutation pushes them.
Pool(d, paletteMutated, seedFired) ==
  Optional(~paletteMutated /\ d.ambient.paletteCooldown <= 0, "mutatePalette")
  \o Optional(d.ambient.typeCooldown <= 0, "toggleFractalType")
  \o Optional(d.fractalType = "mandelbrot" /\ d.ambient.variantCooldown <= 0, "mutateVariant")
  \o Optional(d.fractalType = "julia" /\ SeedPooled(d, seedFired), "reseedJulia")
  \o <<"mutateZoomSpeed">>
  \o Optional(d.ambient.zoomDirectionCooldown <= 0, "mutateZoomDirection")
  \o <<"shiftCore", "mutateAmbientRhythm", "refocusDeeper">>

Spliced(choices, index) ==
  SubSeq(choices, 1, index - 1) \o SubSeq(choices, index + 1, Len(choices))

\* The actions the loop splices out of choices when the random calls for the
\* count, the first index and the second index return count, first and second.
Selection(choices, count, first, second) ==
  LET actionsToRun == Min(Len(choices), IF count > 60 THEN 2 ELSE 1)
      index == ((first * Len(choices)) \div 100) + 1
      rest == Spliced(choices, index)
  IN IF actionsToRun = 2
     THEN <<choices[index], pickFrom(rest, second)>>
     ELSE <<choices[index]>>

\* The scene boost of the palette chance, in hundredths.
PaletteChance(d) ==
  22 + (IF d.ambient.sceneName = "deep-dive" THEN 18
        ELSE IF d.ambient.sceneName = "cosmic-orbit" THEN 12 ELSE 0)

\* What the random calls of one run return: the two direct rolls, the actions
\* selected, and the value r that the executed actions draw, the entry of a
\* scene by toggleFractalType included.
MutationDraws(d) ==
  UNION {
    UNION {
      UNION {
        {[paletteMutated |-> paletteMutated, seedFired |-> seedFired,
          selected |-> selected, r |-> r,
          chosen |-> IF "toggleFractalType" \in Range(selected)
                     THEN SceneEntry(pickSceneDefinition(d.ambient.sceneName), r)
                     ELSE NoDraws] :
           r \in Random} :
        selected \in {Selection(Pool(d, paletteMutated, seedFired), count, first, second) :
                        count \in Random, first \in Random, second \in Random}} :
      seedFired \in IF d.fractalType = "julia" /\ d.ambient.seedCooldown <= 0
                    THEN {roll < 45 : roll \in Random} ELSE {FALSE}} :
    paletteMutated \in IF d.ambient.paletteCooldown <= 0
                       THEN {roll < PaletteChance(d) : roll \in Random} ELSE {FALSE}}

NoFallback(m) == m

\* if (!updates.length) mutateAmbientRhythm();
Fallback(m) == IF m.updates = 0 THEN Pushed([m EXCEPT !.fallback = TRUE]) ELSE m

\* runFractalMutation() with the given rolls.
runFractalMutation(d, rolls) ==
  LET started == [d |-> d, updates |-> 0, fired |-> {}, noops |-> 0, fallback |-> FALSE,
                  breaches |-> {}]
      recoloured == IF rolls.paletteMutated THEN mutatePalette(started, rolls.r) ELSE started
      reseeded == IF rolls.seedFired THEN reseedJulia(recoloured) ELSE recoloured
      first == Executed(rolls.selected[1], reseeded, rolls.r, rolls.chosen)
      second == IF Len(rolls.selected) = 2
                THEN Executed(rolls.selected[2], first, rolls.r, rolls.chosen)
                ELSE first
      ended == Fallback(second)
  IN [ended EXCEPT !.d.statusMessage = IF ended.updates > 0 THEN ended.updates ELSE @]

\* ------------------------------------------------------------------- tick

\* The mount effect: applyScene(pickSceneDefinition(null)).
Mount ==
  /\ director = "unmounted"
  /\ director' = "mounted"
  /\ \E chosen \in SceneEntries(pickSceneDefinition("null")) :
       hook' = applyScene(hook, chosen, "mount")
  /\ UNCHANGED <<request, cycle, sinceFired, marks>>
  /\ UNCHANGED <<engine, failure, given, engineVars, hostVars, channelVars, traceVars, utilVars>>

\* step: the cooldowns and the zoom-out window, decremented with floor 0.
Ticked(d, deltaSeconds) ==
  LET a == d.ambient
      timer == Max(0, a.zoomOutTimer - deltaSeconds)
      closes == a.zoomOutTimer > 0 /\ timer = 0 /\ d.autoZoomDirection = 1
  IN [d EXCEPT
        !.ambient = [@ EXCEPT
           !.paletteCooldown = Max(0, @ - deltaSeconds),
           !.variantCooldown = Max(0, @ - deltaSeconds),
           !.seedCooldown = Max(0, @ - deltaSeconds),
           !.zoomDirectionCooldown = Max(0, @ - deltaSeconds),
           !.typeCooldown = Max(0, @ - deltaSeconds),
           !.zoomOutTimer = IF @ > 0 THEN timer ELSE @,
           !.sceneElapsed = @ + deltaSeconds],
        !.autoZoomDirection = IF closes THEN -1 ELSE @]

ReplacesAlways(d) == TRUE

\* step: whether the tick replaces the scene (none active, or elapsed >= duration).
Replaces(d) == d.ambient.sceneName = "null" \/ Expired(d)

\* The guarded categories among the choices of a run.
Pooled(d, rolls) ==
  {CategoryOf(action) : action \in Range(Pool(d, rolls.paletteMutated, rolls.seedFired))}
  \ {""}

\* A mutation timer that is not held while mutations are disabled.
TimerRuns(d, elapsed) == elapsed

\* step: the mutation timer when no cycle is due - the accumulated time, or 0
\* while mutations are disabled.
TimerWaiting(d, elapsed) == IF d.mutationsEnabled THEN elapsed ELSE 0

\* step: `mutationsEnabledRef.current && mutationElapsed >= mutationInterval`.
MutationDue(d, elapsed) == d.mutationsEnabled /\ elapsed >= d.ambient.mutationInterval

\* step(now), deltaSeconds after the previous tick.
Step(deltaSeconds, limit) ==
  /\ director = "mounted"
  /\ marks.ticks < limit
  /\ LET ticked == Ticked(hook, deltaSeconds)
         aged == [c \in Categories |->
                    IF sinceFired[c] < 0 THEN -1 ELSE sinceFired[c] + deltaSeconds]
     IN \E chosen \in IF Replaces(ticked)
                      THEN SceneEntries(pickSceneDefinition(ticked.ambient.sceneName))
                      ELSE {NoDraws} :
          LET staged == IF Replaces(ticked) THEN applyScene(ticked, chosen, "step") ELSE ticked
              elapsed == staged.ambient.mutationElapsed + deltaSeconds
              due == MutationDue(staged, elapsed)
              waiting == [staged EXCEPT !.ambient.mutationElapsed =
                                          TimerWaiting(staged, elapsed)]
              armed == [staged EXCEPT !.ambient.mutationElapsed = 0,
                                      !.ambient.mutationInterval = MutationInterval]
          IN IF due
             THEN \E rolls \in MutationDraws(armed) :
                    LET m == runFractalMutation(armed, rolls)
                    IN /\ hook' = m.d
                       /\ cycle' = [ran |-> TRUE,
                                    pool |-> Pooled(armed, rolls),
                                    cooling |-> {c \in Pooled(armed, rolls) :
                                                   Cooldown(armed, c) > 0},
                                    fired |-> m.fired,
                                    gaps |-> {[category |-> c, gap |-> aged[c]] : c \in m.fired},
                                    updates |-> m.updates,
                                    noops |-> m.noops,
                                    fallback |-> m.fallback,
                                    breaches |-> m.breaches,
                                    cooldowns |-> [c \in Categories |-> Cooldown(m.d, c)]]
                       /\ sinceFired' = [c \in Categories |->
                                           IF c \in m.fired THEN 0 ELSE aged[c]]
                       /\ marks' = [marks EXCEPT !.ticks = @ + 1, !.cycles = @ + 1]
             ELSE /\ hook' = waiting
                  /\ sinceFired' = aged
                  /\ marks' = [marks EXCEPT !.ticks = @ + 1]
                  /\ UNCHANGED cycle
  /\ UNCHANGED <<director, request>>
  /\ UNCHANGED <<engine, failure, given, engineVars, hostVars, channelVars, traceVars, utilVars>>

\* --------------------------------------------------------------- composer
\* A composed frame by its deltaSeconds: blend is
\* (1 - 0.92^(60 d)) * (1 - ZOOM_SMOOTHING_FACTOR^(60 d)) in thousandths and
\* drift is d * |log10(1 -+ zoomRate)| on the grid, for d = 0.016 s and for
\* d = 2 s at the fastest zoom rate.
Frames == {[blend |-> 11, drift |-> 0], [blend |-> 1000, drift |-> 16]}

\* The oscillator terms of a frame: organicEnergy in hundredths and
\* pulseWave * breatheWave on the grid.
Oscillators ==
  {[energy |-> 82, organic |-> -77], [energy |-> 100, organic |-> 0],
   [energy |-> 118, organic |-> 71]}

BudgetUnclamped(scale, energy) ==
  ((190000 - 90 * Max(scale, -9000)) * energy) \div 100000

\* maxIterations: floor((190 + 90 * log10(1 / scale)) * organicEnergy), clamped.
Budget(scale, energy) ==
  Min(900, Max(180, ((190000 - 90 * Max(scale, -9000)) * energy) \div 100000))

\* guidedMultiplier on the grid.
GuidedMultiplier(zoomDirection, currentScale, targetScale, drift) ==
  LET targetBias == (35 * (targetScale - Max(currentScale, -9000))) \div 100
  IN IF zoomDirection = -1
     THEN clamp(targetBias - drift, -222, -9)
     ELSE clamp(drift - Max(targetBias, -6000), 21, 161)

\* The clamp that ends the scale update.
ClampedScale(scale) == clamp(scale, MIN_VIEW_SCALE, MAX_VIEW_SCALE)

\* The view scale after a frame: the guided and modulated step, blended in.
NextScale(d, frame, oscillators) ==
  LET currentScale == d.view.scale
      guided == GuidedMultiplier(d.autoZoomDirection, currentScale,
                                 d.ambient.sceneTargetScale, frame.drift)
      organicMultiplier == Max(-108, oscillators.organic)
      step == ((guided + organicMultiplier) * frame.blend) \div 1000
  IN ClampedScale(currentScale + step)

\* The convergence check at the end of computeRenderPayload.
MarkArrival(d) ==
  IF Converged(d.view.scale, d.ambient.sceneTargetScale)
  THEN [d EXCEPT !.ambient.sceneElapsed = d.ambient.sceneDuration]
  ELSE d

\* computeRenderPayload({deltaSeconds, width, height}).
ComputeRenderPayload(frame, oscillators) ==
  /\ director = "mounted"
  /\ request' = [maxIterations |-> Budget(hook.view.scale, oscillators.energy),
                 scale |-> hook.view.scale, energy |-> oscillators.energy]
  /\ hook' = MarkArrival(
       [hook EXCEPT !.view.scale = NextScale(hook, frame, oscillators)])
  /\ marks' = [marks EXCEPT !.frames = @ + 1]
  /\ UNCHANGED <<director, cycle, sinceFired>>
  /\ UNCHANGED <<engine, failure, given, engineVars, hostVars, channelVars, traceVars, utilVars>>

\* --------------------------------------------------------------- handlers
\* A handler call and the Director state it leaves; the calls are counted up
\* to MaxHandlerCalls, and the last handler called is recorded with the view
\* scale it found.
Handled(handler, d) ==
  /\ director = "mounted"
  /\ hook' = d
  /\ marks' = [marks EXCEPT !.handlers = Min(MaxHandlerCalls, @ + 1),
                            !.lastCall = handler,
                            !.calledAt = hook.view.scale]
  /\ UNCHANGED <<director, request, cycle, sinceFired>>
  /\ UNCHANGED <<engine, failure, given, engineVars, hostVars, channelVars, traceVars, utilVars>>

ZoomedUnclamped(scale) == scale

\* handleManualZoom: the clamp on the zoomed scale.
ZoomedScale(scale) == clamp(scale, MIN_VIEW_SCALE, MAX_VIEW_SCALE)

manualZoom(d, direction) ==
  LET factor == IF direction = "in" THEN ZoomInFactor ELSE ZoomOutFactor
      scale == ZoomedScale(d.view.scale + factor)
  IN [d EXCEPT !.view.scale = scale,
               !.ambient.sceneTargetScale = scale,
               !.statusMessage = 1]

\* handleManualZoom(direction)
HandleManualZoom(direction) ==
  /\ Handled("handleManualZoom", manualZoom(hook, direction))

\* handleResetView()
HandleResetView ==
  /\ Handled("handleResetView", [alignViewToType(hook, TRUE) EXCEPT !.statusMessage = 1])

\* handleFractalToggle()
HandleFractalToggle ==
  /\ \E chosen \in SceneEntries(pickSceneDefinition(hook.ambient.sceneName)) :
       LET next == IF hook.fractalType = "mandelbrot" THEN "julia" ELSE "mandelbrot"
           cooled == [hook EXCEPT
                        !.fractalType = next,
                        !.fractalVariant = "classic",
                        !.ambient.variantCooldown = VARIANT_COOLDOWN_SECONDS,
                        !.ambient.paletteCooldown = (PALETTE_COOLDOWN_SECONDS * 5) \div 10,
                        !.ambient.typeCooldown = FRACTAL_TYPE_COOLDOWN_SECONDS]
           entered == Entered(applyScene(alignViewToType(cooled, TRUE), chosen,
                                         "handleFractalToggle"), hook)
       IN Handled("handleFractalToggle", [entered EXCEPT !.statusMessage = @ + 1])

\* handleFractalReshuffle(); every random call of the handler itself returns r.
HandleFractalReshuffle(r) ==
  /\ \E chosen \in SceneEntries(pickSceneDefinition(hook.ambient.sceneName)) :
       LET nextType == IF r > 50 THEN "mandelbrot" ELSE "julia"
           nextVariant == IF nextType = "mandelbrot"
                          THEN pickFrom(FRACTAL_VARIANTS, r)
                          ELSE "classic"
           cooled == [hook EXCEPT
                        !.fractalType = nextType,
                        !.fractalVariant = nextVariant,
                        !.ambient.variantCooldown = VARIANT_COOLDOWN_SECONDS,
                        !.ambient.paletteCooldown = PALETTE_COOLDOWN_SECONDS,
                        !.ambient.typeCooldown = FRACTAL_TYPE_COOLDOWN_SECONDS]
           entered == Entered(applyScene(alignViewToType(cooled, TRUE), chosen,
                                         "handleFractalReshuffle"), hook)
           drawn == (r * PaletteCount) \div 100
           nextPalette == IF drawn = hook.paletteIndex THEN (drawn + 1) % PaletteCount ELSE drawn
       IN Handled("handleFractalReshuffle", [entered EXCEPT !.paletteIndex = nextPalette, !.statusMessage = @ + 1])

\* handleJuliaReseed(): the new seed and the focus target are not modelled.
HandleJuliaReseed ==
  /\ Handled("handleJuliaReseed", [alignViewToType(hook, FALSE) EXCEPT !.statusMessage = 1])

\* handleAutoZoomDirectionToggle()
HandleAutoZoomDirectionToggle ==
  /\ LET flipped == IF hook.autoZoomDirection = -1 THEN 1 ELSE -1
         next == IF flipped = 1 /\ OutwardBlocked(hook.view.scale) THEN -1 ELSE flipped
     IN Handled("handleAutoZoomDirectionToggle", [hook EXCEPT !.autoZoomDirection = next, !.statusMessage = 1])

\* The variants a caller selects.
VariantInputs == {"cubic", "burning-ship"}

\* handleVariantChange(event)
HandleVariantChange(nextVariant) ==
  /\ Handled("handleVariantChange", [hook EXCEPT !.fractalVariant = nextVariant,
                              !.ambient.variantCooldown = VARIANT_COOLDOWN_SECONDS,
                              !.statusMessage = 1])

\* handleMutationsToggle()
HandleMutationsToggle ==
  /\ LET next == ~hook.mutationsEnabled
     IN Handled("handleMutationsToggle", [hook EXCEPT
                   !.mutationsEnabled = next,
                   !.ambient.mutationElapsed = 0,
                   !.ambient.mutationInterval = IF next THEN MutationInterval ELSE @,
                   !.statusMessage = 1])

\* The preset names a caller may pass: the scenes' names and an unknown one.
PresetNames == {scene.name : scene \in Range(SCENE_DEFINITIONS)} \cup {"unknown"}

\* handlePresetSelect(presetName)
HandlePresetSelect(presetName) ==
  /\ LET found == SelectSeq(SCENE_DEFINITIONS, LAMBDA scene : scene.name = presetName)
     IN IF hook.ambient.sceneName = presetName \/ found = <<>>
        THEN Handled("handlePresetSelect", hook)
        ELSE \E chosen \in SceneEntries(found) :
               Handled("handlePresetSelect", [applyScene(hook, chosen, "handlePresetSelect")
                          EXCEPT !.statusMessage = 1])

\* handlePaletteShuffle()
HandlePaletteShuffle(r) ==
  /\ LET drawn == (r * PaletteCount) \div 100
         next == IF drawn = hook.paletteIndex THEN (drawn + 1) % PaletteCount ELSE drawn
     IN Handled("handlePaletteShuffle", [hook EXCEPT !.paletteIndex = next, !.statusMessage = 1])

\* ----------------------------------------------------------- specification
\* The hook is rendered for the first time with either initial mode; the
\* engine is left as it is before createFractalEngine.
DirectorInit ==
  /\ EngineInit
  /\ \E initialMode \in {"mandelbrot", "julia"} : Constructed(initialMode)

\* Whether one more handler call fits the bound.
CanCall == marks.handlers < MaxHandlerCalls

\* The hook driven by its ticks, composed frames and handlers.
DirectorNext ==
  \/ Mount
  \/ \E deltaSeconds \in TickDeltas : Step(deltaSeconds, MaxDirectorTicks)
  \/ /\ marks.frames < MaxComposedFrames
     /\ \E frame \in Frames, oscillators \in Oscillators :
          ComputeRenderPayload(frame, oscillators)
  \/ CanCall /\ \E direction \in {"in", "out"} : HandleManualZoom(direction)
  \/ CanCall /\ HandleResetView
  \/ CanCall /\ HandleFractalToggle
  \/ CanCall /\ \E r \in Random : HandleFractalReshuffle(r)
  \/ CanCall /\ HandleJuliaReseed
  \/ CanCall /\ HandleAutoZoomDirectionToggle
  \/ CanCall /\ \E nextVariant \in VariantInputs : HandleVariantChange(nextVariant)
  \/ CanCall /\ HandleMutationsToggle
  \/ CanCall /\ \E presetName \in PresetNames : HandlePresetSelect(presetName)
  \/ CanCall /\ \E r \in Random : HandlePaletteShuffle(r)

DirectorSpec == DirectorInit /\ [][DirectorNext]_vars

\* The hook left to itself: the mount effect and the ticks of the ambient loop.
AmbientNext ==
  \/ Mount
  \/ \E deltaSeconds \in TickDeltas : Step(deltaSeconds, MaxTicks)

AmbientSpec == DirectorInit /\ [][AmbientNext]_vars

\* The hook under a caller who keeps zooming in and selects presets, without
\* a bound on the calls: the clamp of the scale keeps the states finite.
ZoomNext ==
  \/ Mount
  \/ HandleManualZoom("in")
  \/ \E presetName \in PresetNames : HandlePresetSelect(presetName)

ZoomSpec == DirectorInit /\ [][ZoomNext]_vars

\* The hook under a caller who pauses and resumes the mutations between ticks.
PausedNext ==
  \/ Mount
  \/ \E deltaSeconds \in PausedTickDeltas : Step(deltaSeconds, MaxPausedTicks)
  \/ HandleMutationsToggle

PausedSpec == DirectorInit /\ [][PausedNext]_vars

\* ------------------------------------------------------------------ C11
\* C11: in every reachable Director state the view scale lies between
\* MIN_VIEW_SCALE and MAX_VIEW_SCALE, whatever manual zooms, view resets, type
\* toggles, scene changes, mutations and composed frames led to it.
ViewScaleWithinBounds ==
  /\ MIN_VIEW_SCALE <= hook.view.scale
  /\ hook.view.scale <= MAX_VIEW_SCALE

\* A manual zoom out has been held at the upper bound.
ZoomHeldAtMaximum ==
  /\ marks.handlers > 0
  /\ hook.view.scale = MAX_VIEW_SCALE

\* ------------------------------------------------------------------ C12
\* C12 as stated, its second half: no scene replacement happens while the
\* elapsed time is short of the duration and the view scale has not converged
\* to the target, so every scene entered after the mount replaced a scene that
\* had expired or converged.
SceneReplacedOnlyWhenDue ==
  hook.entry.by \notin {"none", "mount"} =>
    hook.entry.expired \/ hook.entry.converged

\* C12, amended: a tick replaces the scene exactly when the elapsed time, the
\* tick's delta included, has reached the duration, so that no tick leaves an
\* expired scene in place; a composed frame replaces no scene, and when it
\* leaves the view within the tolerance of the target it sets the elapsed time
\* to the duration, which makes the next tick replace the scene; every other
\* replacement is the mutation's type toggle inside a tick or one of the
\* handlers handlePresetSelect, handleFractalToggle, handleFractalReshuffle.
SceneReplacedByTickOrCommand ==
  [][/\ marks'.ticks # marks.ticks =>
          /\ ~Expired(hook')
          /\ hook'.entry # hook.entry =>
               \/ hook'.entry.by = "step" /\ hook'.entry.expired
               \/ hook'.entry.by = "toggleFractalType" /\ cycle'.ran /\ "type" \in cycle'.fired
     /\ marks'.frames # marks.frames =>
          /\ hook'.entry = hook.entry
          /\ Converged(hook'.view.scale, hook'.ambient.sceneTargetScale) => Expired(hook')
     /\ (marks'.handlers # marks.handlers /\ hook'.entry # hook.entry) =>
          hook'.entry.by \in {"handlePresetSelect", "handleFractalToggle",
                              "handleFractalReshuffle"}
    ]_vars

\* A tick has replaced a scene that a composed frame had found converged.
ConvergedSceneReplaced ==
  /\ marks.frames > 0
  /\ hook.entry.by = "step"
  /\ hook.entry.converged

\* ------------------------------------------------------------------ C13
\* C13: at every scene transition after the first scene, whatever triggers it
\* (expiry or convergence at a tick, the type toggle of a mutation or of a
\* handler, reshuffle, preset select), the scene entered has another name than
\* the scene it replaces, and afterwards exactly one scene, the one entered, is
\* the active scene.
NextSceneDiffers ==
  /\ director = "mounted" =>
       Cardinality({scene \in Range(SCENE_DEFINITIONS) :
                      scene.name = hook.ambient.sceneName}) = 1
  /\ hook.entry.by # "none" =>
       /\ hook.ambient.sceneName = hook.entry.scene
       /\ hook.entry.by # "mount" =>
            /\ hook.entry.previous # "null"
            /\ hook.entry.scene # hook.entry.previous

\* The type toggle of a mutation has replaced the scene of the mount.
MutationReplacedScene ==
  /\ hook.entry.by = "toggleFractalType"
  /\ hook.entry.previous # "null"

\* ------------------------------------------------------------------ C14
\* C14: whenever a run of the Mutation Engine fires a cooldown-guarded
\* category, that category's cooldown equals its configured value when the run
\* ends (for the zoom direction either configured value: the cooldown of an
\* inward flip or the zoom-out window of an outward one).
FiredCooldownIsConfigured ==
  cycle.ran =>
    \A category \in cycle.fired :
       \/ cycle.cooldowns[category] = Configured(category)
       \/ /\ category = "zoomDirection"
          /\ cycle.cooldowns[category] = ZOOM_OUT_MAX_SECONDS

\* ------------------------------------------------------------------ C15
\* C15: two firings of one cooldown-guarded category by the Mutation Engine
\* are at least the category's configured cooldown of ticked time apart (for
\* the zoom direction at least the zoom-out window, the shorter of its two
\* configured values).
RefiresOnlyAfterCooldown ==
  cycle.ran =>
    \A firing \in cycle.gaps :
       \/ firing.gap < 0
       \/ firing.gap >= IF firing.category = "zoomDirection"
                        THEN ZOOM_OUT_MAX_SECONDS
                        ELSE Configured(firing.category)

\* ------------------------------------------------------------------ C16
\* C16: every run of the Mutation Engine executes at least one action that
\* pushes a status fragment, and the status published at its end is made of
\* the fragments of the run, hence non-empty; this also holds when the only
\* action selected did nothing, through the fallback to mutateAmbientRhythm.
EveryCyclePublishesStatus ==
  [][cycle' # cycle =>
       /\ cycle'.ran
       /\ cycle'.updates >= 1
       /\ hook'.statusMessage = cycle'.updates
       /\ cycle'.fallback => cycle'.fired = {} /\ cycle'.noops >= 1 /\ cycle'.updates = 1
    ]_vars

\* A run whose only selected action, reseedJulia during its cooldown, did
\* nothing, and which fell back to mutateAmbientRhythm.
FallbackRan ==
  /\ cycle.ran
  /\ cycle.fallback
  /\ cycle.noops >= 1
  /\ "seed" \in cycle.cooling

\* ------------------------------------------------------------------ C17
\* The view scales the zoom-in control reaches from the initial scale, down to
\* the minimum, and the maximum.
ZoomScales ==
  {ZoomedScale(INITIAL_VIEW_SCALE + k * ZoomInFactor) :
     k \in 0..((INITIAL_VIEW_SCALE - MIN_VIEW_SCALE) \div (0 - ZoomInFactor) + 1)}
  \cup {MAX_VIEW_SCALE}

\* C17: the iteration budget of every composed request lies within [180, 900],
\* and with the oscillator terms of the request held fixed the budget is
\* monotone: a smaller view scale gets at least the budget of the request, a
\* larger one at most that budget.
BudgetBoundedAndMonotone ==
  request # NoRequest =>
    /\ request.maxIterations = Budget(request.scale, request.energy)
    /\ 180 <= request.maxIterations
    /\ request.maxIterations <= 900
    /\ \A scale \in ZoomScales \cup {hook.view.scale} :
         /\ scale < request.scale => Budget(scale, request.energy) >= request.maxIterations
         /\ scale > request.scale => Budget(scale, request.energy) <= request.maxIterations

\* A request composed at the lower bound of the budget, while the frame took
\* the view to a smaller scale whose budget is larger.
BudgetHeldAtMinimum ==
  /\ request # NoRequest
  /\ request.maxIterations = 180
  /\ hook.view.scale < request.scale
  /\ Budget(hook.view.scale, request.energy) > 180

\* ------------------------------------------------------------------ C18
\* C18 as stated: on every scene entry the target scale of the scene is at
\* most 70% of the view scale at that moment, hence strictly smaller than it.
TargetAtMostSeventyPercent ==
  hook.entry.by # "none" =>
    /\ hook.entry.target <= hook.entry.scale + SeventyPercent
    /\ hook.entry.target < hook.entry.scale

\* C18, amended: on every scene entry the target scale is the smaller of 70%
\* of the view scale and the scene's drawn target, raised to MIN_VIEW_SCALE
\* when that is below it: the target never exceeds the view scale or the drawn
\* target (unless raised to the minimum), it is at most 70% of the view scale
\* as long as 70% of the view scale is not below MIN_VIEW_SCALE, and it is
\* MIN_VIEW_SCALE otherwise.
TargetAtMostSeventyPercentOrMinimum ==
  hook.entry.by # "none" =>
    /\ MIN_VIEW_SCALE <= hook.entry.target
    /\ hook.entry.target <= hook.entry.scale
    /\ hook.entry.target <= Max(MIN_VIEW_SCALE, hook.entry.baseTarget)
    /\ hook.entry.scale + SeventyPercent >= MIN_VIEW_SCALE =>
         hook.entry.target <= hook.entry.scale + SeventyPercent
    /\ hook.entry.scale + SeventyPercent < MIN_VIEW_SCALE =>
         hook.entry.target = MIN_VIEW_SCALE

\* A preset selected at a view scale so small that 70% of it is below the
\* minimum: the target is the minimum.
SceneEnteredNearMinimum ==
  /\ hook.entry.by = "handlePresetSelect"
  /\ hook.entry.scale + SeventyPercent < MIN_VIEW_SCALE
  /\ hook.entry.target = MIN_VIEW_SCALE

\* ------------------------------------------------------------------ C19
\* The worker on its own: messages posted to it by any page, the engine's
\* guards against empty canvases and palettes not being in the way.
MaxWorkerMessages == 3

\* event.data of the messages posted: set-palette with an empty, a one-colour
\* or a missing colors buffer, render with zero and non-zero dimensions, and
\* a message of another type.
WorkerInputs ==
  {[type |-> "set-palette", colors |-> colors] :
     colors \in {[kind |-> "Float32Array", length |-> 0],
                 [kind |-> "Float32Array", length |-> 3], NoBuffer}}
  \cup {[type |-> "render", width |-> width, height |-> height, id |-> Len(messages) + 1] :
          width \in {0, 2}, height \in {0, 1}}
  \cup {[type |-> "ping"]}

\* worker.postMessage(data)
PostToWorker(data) ==
  /\ Len(messages) < MaxWorkerMessages
  /\ messages' = Append(messages, data)
  /\ UNCHANGED <<directorVars, utilVars>>
  /\ UNCHANGED <<engine, failure, given, engineVars, hostVars, workerPos, palette, results,
                 listening, terminated, traceVars>>

WorkerNext ==
  \/ \E data \in WorkerInputs : PostToWorker(data)
  \/ WorkerStep

WorkerSpec == Init /\ [][WorkerNext]_vars

\* C19: a render message the worker takes while its retained palette is empty,
\* or whose width or height is zero, is answered with exactly one
\* render-result that echoes the dimensions and whose buffer is null: no pixel
\* buffer is allocated or computed, and the retained palette is left as it is.
EmptyRenderAnsweredWithNull ==
  [][workerPos' # workerPos =>
       LET data == messages[workerPos + 1]
       IN (/\ data.type = "render"
           /\ palette.length = 0 \/ data.width = 0 \/ data.height = 0) =>
            /\ Len(results') = Len(results) + 1
            /\ SubSeq(results', 1, Len(results)) = results
            /\ results'[Len(results')].type = "render-result"
            /\ results'[Len(results')].buffer = "null"
            /\ results'[Len(results')].width = data.width
            /\ results'[Len(results')].height = data.height
            /\ palette' = palette
    ]_vars

\* With a palette retained, the worker has answered a zero-width render with a
\* null buffer and another render with pixels.
NullAndPixelResults ==
  /\ palette.length > 0
  /\ \E i \in DOMAIN results :
       results[i].buffer = "null" /\ results[i].width = 0 /\ results[i].height # 0
  /\ \E i \in DOMAIN results : results[i].buffer = "pixels"

\* ------------------------------------------------------------------ C20
\* C20: a frame that arrives less than minRenderInterval after the last
\* accepted frame is not accepted: it calls no composer, posts nothing to the
\* worker and leaves the pending request and the time of the last accepted
\* frame alone; a frame that is accepted arrives at least the interval
\* configured at that moment after the last accepted one; and every frame of a
\* running engine, accepted or not, schedules the next one.
FrameRateCapped ==
  [][calls'.frames # calls.frames =>
       LET elapsed == now' - lastTimestamp
       IN /\ (running /\ elapsed < options.minRenderInterval) =>
               /\ calls'.accepted = calls.accepted
               /\ calls'.composer = calls.composer
               /\ messages' = messages
               /\ pendingMessage' = pendingMessage
               /\ lastTimestamp' = lastTimestamp
               /\ composed' = composed
          /\ calls'.accepted # calls.accepted =>
               /\ elapsed >= options.minRenderInterval
               /\ lastTimestamp' = now'
          /\ running => rafCallback' /\ animationId' = "handle"
    ]_vars

\* A frame came too early and was skipped while the loop stayed scheduled,
\* and an earlier or later frame was accepted, composed and posted.
EarlyFrameSkipped ==
  /\ engine = "created"
  /\ running
  /\ rafCallback
  /\ calls.frames > calls.accepted
  /\ calls.accepted > 0
  /\ calls.composer > 0
  /\ messages # <<>>

\* ---------------------------------------------------------------------- C21
\* The value updateSettings stores for a key that is present in its argument:
\* the interval floored at 0, the pixel-ratio cap floored at 1, a render
\* callback that is not a function as null, the other callbacks as given.
StoredSetting(key, value) ==
  IF key = "minRenderInterval" THEN Max(0, value)
  ELSE IF key = "maxDevicePixelRatio" THEN Max(1, value)
  ELSE IF key = "computeRenderPayload"
       THEN (IF value = "function" THEN "function" ELSE "null")
  ELSE value

\* C21: an updateSettings call stores the settings whose keys are present in
\* its argument and leaves every other setting as it was; it leaves the engine
\* instance, the worker and the channel, the frame loop and its schedule, the
\* busy flag, the pending slot and the palette state untouched.
SettingsUpdatedInPlace ==
  [][calls'.settings = calls.settings + 1 =>
       LET settings == calls'.settingsGiven
       IN /\ \A key \in DOMAIN options \ DOMAIN settings : options'[key] = options[key]
          /\ \A key \in DOMAIN settings : options'[key] = StoredSetting(key, settings[key])
          /\ "maxDevicePixelRatio" \notin DOMAIN settings => canvas' = canvas
          /\ UNCHANGED <<engine, context, worker, resizeObserver, observing,
                         animationId, running, rafCallback, lastTimestamp, telemetry,
                         busy, pendingMessage,
                         paletteBuffer, paletteVersion, paletteSentVersion,
                         channelVars, composed, draws>>]_vars

\* Settings without the composer, the draw hook and the pixel-ratio cap were
\* applied to a running engine that holds a palette, has a request in flight
\* and another one pending: the composer and the draw hook given at
\* construction are still set.
SettingsUpdatedWhileBusy ==
  /\ calls.settings >= 1
  /\ DOMAIN calls.settingsGiven = {"minRenderInterval", "onWorkerMessage"}
  /\ options.minRenderInterval = 2
  /\ options.onWorkerMessage = "function"
  /\ options.computeRenderPayload = "function"
  /\ options.onDraw = "function"
  /\ running
  /\ busy
  /\ pendingMessage # NoMessage
  /\ paletteVersion = 1

\* ---------------------------------------------------------------------- C22
\* C22: a channel message that is not a render-result is handed to the
\* onWorkerMessage hook when one is set and to nobody otherwise; it causes no
\* draw, posts nothing and leaves busy, the pending slot and the palette
\* versions as they were.
OtherMessageOnlyReachesHook ==
  [][calls'.other = calls.other + 1 =>
       /\ calls'.messageHook =
            calls.messageHook + (IF options.onWorkerMessage = "function" THEN 1 ELSE 0)
       /\ calls'.results = calls.results
       /\ UNCHANGED <<draws, messages, busy, pendingMessage,
                      paletteBuffer, paletteVersion, paletteSentVersion>>]_vars

\* Two such messages arrived at an engine with the hook while a request was
\* in flight: the hook got both, and nothing was drawn.
OtherMessagesWhileBusy ==
  /\ calls.other = 2
  /\ calls.messageHook = 2
  /\ busy
  /\ draws = <<>>

\* ---------------------------------------------------------------------- C23
\* C23: a tick that finds the mutations disabled does not run the Mutation
\* Engine and leaves the mutation timer at zero; the timer is zero whenever
\* the mutations are disabled, and it is zero right after they are enabled
\* again.
PausedMutationsNeverRun ==
  /\ [](~hook.mutationsEnabled => hook.ambient.mutationElapsed = 0)
  /\ [][(marks'.ticks = marks.ticks + 1 /\ ~hook.mutationsEnabled) =>
          /\ marks'.cycles = marks.cycles
          /\ cycle' = cycle
          /\ hook'.ambient.mutationElapsed = 0]_vars
  /\ [][(~hook.mutationsEnabled /\ hook'.mutationsEnabled) =>
          hook'.ambient.mutationElapsed = 0]_vars

\* Two ticks, each as long as the mutation interval, have passed in one
\* scene; only one of them ran the Mutation Engine, the other found the
\* mutations paused.  They have been resumed since, and the timer is zero.
ResumedAfterPausedTick ==
  /\ marks.ticks = 2
  /\ marks.cycles = 1
  /\ hook.ambient.sceneElapsed = 260
  /\ hook.mutationsEnabled
  /\ hook.statusMessage = 1
  /\ hook.ambient.mutationElapsed = 0

\* ---------------------------------------------------------------------- C24
\* The configured target-scale range of the scene the last entry entered.
EnteredRange ==
  LET entered == SelectSeq(SCENE_DEFINITIONS, LAMBDA scene : scene.name = hook.entry.scene)
  IN entered[1].targetScaleRange

\* C24 (as claimed): on every scene entry the chosen target scale lies inside
\* the entered scene's configured target-scale range.
TargetInsideSceneRange ==
  hook.entry.by # "none" =>
    /\ EnteredRange[1] <= hook.entry.target
    /\ hook.entry.target <= EnteredRange[2]

\* C24 (amended): on every scene entry the base target is drawn inside the
\* entered scene's range, and the chosen target is never above that draw, so
\* never above the range; it is inside the range exactly when 70% of the
\* scale at the entry is at least the lower end of the range, and otherwise
\* it is those 70% (or MIN_VIEW_SCALE when they are lower still).
TargetAtMostSceneRange ==
  hook.entry.by # "none" =>
    /\ EnteredRange[1] <= hook.entry.baseTarget
    /\ hook.entry.baseTarget <= EnteredRange[2]
    /\ hook.entry.target <= hook.entry.baseTarget
    /\ (EnteredRange[1] <= hook.entry.target)
         <=> (EnteredRange[1] <= hook.entry.scale + SeventyPercent)
    /\ hook.entry.target < EnteredRange[1] =>
         hook.entry.target = Max(MIN_VIEW_SCALE, hook.entry.scale + SeventyPercent)

\* A tick entered breathing-bloom with a target below the scene's range: 70%
\* of the scale at the entry.
BloomEnteredBelowRange ==
  /\ hook.entry.by = "step"
  /\ hook.entry.scene = "breathing-bloom"
  /\ hook.entry.target = hook.entry.scale + SeventyPercent
  /\ hook.entry.target < EnteredRange[1]

\* ---------------------------------------------------------------------- C25
\* C25: a zoom-direction flip, by the Mutation Engine or by
\* handleAutoZoomDirectionToggle, leaves the auto-zoom direction outward only
\* when the view scale is below 80% of MAX_VIEW_SCALE.  (A flip is a run of
\* the Mutation Engine that fires the zoom-direction action without entering
\* a scene, or a call of the handler.)
OutwardFlipOnlyBelowCeiling ==
  [][(/\ hook'.autoZoomDirection = 1
      /\ hook'.entry = hook.entry
      /\ \/ /\ marks'.cycles = marks.cycles + 1
            /\ "zoomDirection" \in cycle'.fired
         \/ /\ marks'.handlers # marks.handlers \/ marks'.lastCall # marks.lastCall
            /\ marks'.lastCall = "handleAutoZoomDirectionToggle")
     => /\ hook'.view.scale = hook.view.scale
        /\ hook.view.scale < OutwardCeiling]_vars

\* handleAutoZoomDirectionToggle was called right after the mount had entered
\* an inward scene at the initial scale, which is above 80% of
\* MAX_VIEW_SCALE: the direction is still inward.
OutwardToggleBlocked ==
  /\ marks.lastCall = "handleAutoZoomDirectionToggle"
  /\ marks.ticks = 0
  /\ marks.frames = 0
  /\ hook.entry.by = "mount"
  /\ hook.entry.scene = "deep-dive"
  /\ hook.view.scale >= OutwardCeiling
  /\ hook.autoZoomDirection = -1

\* ---------------------------------------------------------------------- C26
\* C26 (as claimed): a step other than a composed frame or a manual zoom that
\* takes the view scale from another value to its initial value switches the
\* fractal type.
ScaleResetOnlyOnTypeSwitch ==
  [][(/\ hook.view.scale # INITIAL_VIEW_SCALE
      /\ hook'.view.scale = INITIAL_VIEW_SCALE
      /\ marks'.frames = marks.frames
      /\ ~(marks'.handlers # marks.handlers /\ marks'.lastCall = "handleManualZoom"))
     => hook'.fractalType # hook.fractalType]_vars

\* C26 (amended): the view scale is reset to its initial value by the
\* operations that realign the view with a scale reset - handleFractalToggle,
\* the Mutation Engine's type toggle, handleResetView and
\* handleFractalReshuffle, the latter two also when the type stays as it is.
\* Every other handler but handleManualZoom, every tick whose mutation run (if
\* any) does not toggle the type, and so every scene change, Julia reseed and
\* other mutation, leaves the scale as it was.
ScaleResetOnlyByRealignment ==
  /\ [][marks'.handlers # marks.handlers =>
          IF marks'.lastCall \in {"handleFractalToggle", "handleResetView",
                                  "handleFractalReshuffle"}
          THEN hook'.view.scale = INITIAL_VIEW_SCALE
          ELSE marks'.lastCall # "handleManualZoom" => hook'.view.scale = hook.view.scale]_vars
  /\ [][marks'.ticks # marks.ticks =>
          IF marks'.cycles # marks.cycles /\ "type" \in cycle'.fired
          THEN /\ hook'.view.scale = INITIAL_VIEW_SCALE
               /\ hook'.fractalType # hook.fractalType
          ELSE hook'.view.scale = hook.view.scale]_vars
  /\ [][director' # director => hook'.view.scale = hook.view.scale]_vars

\* handleResetView found the view at another scale than the initial one, after
\* a composed frame, and reset it; the fractal type is the one the hook
\* started with and no tick has run.
ResetViewResetScale ==
  /\ marks.lastCall = "handleResetView"
  /\ marks.calledAt # INITIAL_VIEW_SCALE
  /\ marks.ticks = 0
  /\ hook.view.scale = INITIAL_VIEW_SCALE

\* ------------------------------------------------------------ focus target
\* FOCUS_PRESETS: scales in units of 0.0001, centre coordinates in units of
\* 0.00000001 (rounded to that).  The variant key burning-ship is written
\* burning_ship as a field name.
FOCUS_PRESETS ==
  [mandelbrot |->
    [classic |->
     << [scale |-> 12000, center |-> [x |-> -50000000, y |-> 0]],
        [scale |-> 3500, center |-> [x |-> -74530000, y |-> 11270000]],
        [scale |-> 1200, center |-> [x |-> -125506000, y |-> 38190000]],
        [scale |-> 450, center |-> [x |-> -77468090, y |-> 13741690]],
        [scale |-> 200, center |-> [x |-> -74364389, y |-> 13182590]],
        [scale |-> 85, center |-> [x |-> -74550700, y |-> 11253100]],
        [scale |-> 22, center |-> [x |-> -74390400, y |-> 13116100]] >>,
     cubic |->
     << [scale |-> 12000, center |-> [x |-> -48000000, y |-> 0]],
        [scale |-> 2600, center |-> [x |-> -38900000, y |-> 31200000]],
        [scale |-> 820, center |-> [x |-> -16000000, y |-> 65200000]],
        [scale |-> 280, center |-> [x |-> -6000000, y |-> 83500000]],
        [scale |-> 90, center |-> [x |-> -2000000, y |-> 91000000]] >>,
     burning_ship |->
     << [scale |-> 12000, center |-> [x |-> -175000000, y |-> -2000000]],
        [scale |-> 2200, center |-> [x |-> -180000000, y |-> -10000000]],
        [scale |-> 800, center |-> [x |-> -173000000, y |-> -18000000]],
        [scale |-> 280, center |-> [x |-> -175488000, y |-> -3000000]],
        [scale |-> 90, center |-> [x |-> -175465000, y |-> -2500000]] >>,
     perpendicular |->
     << [scale |-> 12000, center |-> [x |-> -12300000, y |-> -74500000]],
        [scale |-> 2800, center |-> [x |-> -29000000, y |-> -62000000]],
        [scale |-> 900, center |-> [x |-> -44000000, y |-> -55000000]],
        [scale |-> 320, center |-> [x |-> -51000000, y |-> -48000000]],
        [scale |-> 110, center |-> [x |-> -53800000, y |-> -46200000]] >>]]

\* The field of a type's table that holds a variant's presets.
VariantKey(variant) == IF variant = "burning-ship" THEN "burning_ship" ELSE variant

\* [...presetList].sort((a, b) => a.scale - b.scale): ascending by scale,
\* equal scales in their listed order.
RECURSIVE SortedByScale(_)
SortedByScale(presetList) ==
  IF presetList = <<>> THEN <<>>
  ELSE LET first == Head(presetList)
           rest == SortedByScale(Tail(presetList))
       IN SelectSeq(rest, LAMBDA preset : preset.scale < first.scale)
          \o <<first>>
          \o SelectSeq(rest, LAMBDA preset : preset.scale >= first.scale)

\* A search that accepts only presets at least as large as the target scale.
ReachesExactly(targetScale, preset) == targetScale <= preset.scale

\* pickFocusTarget: `targetScale <= preset.scale * 1.1`.
Reaches(targetScale, preset) == 10 * targetScale <= 11 * preset.scale

\* (rng() - 0.5) * jitter for rng() = r hundredths and jitter a number of
\* hundredths of the preset's scale, in the unit of the coordinates.
Jitter(r, hundredths, preset) == (r - 50) * hundredths * preset.scale

\* pickFocusTarget(fractalType, variant, targetScale) with the default table;
\* rx and ry are what the two rng() calls return.  The result carries the
\* preset it was taken from.
pickFocusTarget(fractalType, variant, targetScale, rx, ry) ==
  IF fractalType \notin DOMAIN FOCUS_PRESETS THEN NoFocus
  ELSE LET typePresets == FOCUS_PRESETS[fractalType]
           variantKey == IF variant = "" THEN "classic" ELSE VariantKey(variant)
           presetList == IF variantKey \in DOMAIN typePresets
                         THEN typePresets[variantKey] ELSE typePresets.classic
           sorted == SortedByScale(presetList)
           reaching == SelectSeq(sorted, LAMBDA preset : Reaches(targetScale, preset))
       IN IF presetList = <<>> THEN NoFocus
          ELSE IF reaching # <<>>
          THEN [resolved |-> TRUE, fallback |-> FALSE, preset |-> reaching[1],
                x |-> reaching[1].center.x + Jitter(rx, 18, reaching[1]),
                y |-> reaching[1].center.y + Jitter(ry, 18, reaching[1])]
          ELSE LET fallback == sorted[Len(sorted)]
               IN [resolved |-> TRUE, fallback |-> TRUE, preset |-> fallback,
                   x |-> fallback.center.x + Jitter(rx, 20, fallback),
                   y |-> fallback.center.y + Jitter(ry, 20, fallback)]

\* The arguments pickFocusTarget is applied to: both fractal types; the four
\* variants, none and an unknown one; target scales (units of 0.0001) between
\* MIN_VIEW_SCALE and MAX_VIEW_SCALE, next to the presets' scales and their
\* 110%, and one above every preset's 110%; rng() of 0, 0.5 and 0.99.
FocusTypes == {"mandelbrot", "julia"}
FocusVariants == {"classic", "cubic", "burning-ship", "perpendicular", "", "tricorn"}
FocusScales ==
  {1, 22, 24, 25, 85, 93, 94, 200, 219, 221, 450, 494, 496, 1200, 1319, 1321,
   3500, 3686, 3849, 3851, 9000, 11000, 13199, 13201}
FocusRolls == {0, 50, 99}

\* Calls of pickFocusTarget in one run.
MaxFocusCalls == 1

\* updateFocusTarget(scale): pickFocusTarget for the current type and variant.
PickFocusTarget(fractalType, variant, targetScale, rx, ry) ==
  /\ focus.calls < MaxFocusCalls
  /\ focus' = [calls |-> focus.calls + 1, fractalType |-> fractalType, variant |-> variant,
               targetScale |-> targetScale,
               result |-> pickFocusTarget(fractalType, variant, targetScale, rx, ry)]
  /\ UNCHANGED <<engine, failure, given, engineVars, hostVars, channelVars, traceVars,
                 directorVars, shade, directive, lut, curator, julia>>

FocusNext ==
  \E fractalType \in FocusTypes, variant \in FocusVariants, targetScale \in FocusScales,
     rx \in FocusRolls, ry \in FocusRolls :
    PickFocusTarget(fractalType, variant, targetScale, rx, ry)

FocusSpec == Init /\ [][FocusNext]_vars

\* ---------------------------------------------------------------------- C27
\* The presets of the table the last call searched.
SearchedPresets ==
  LET typePresets == FOCUS_PRESETS[focus.fractalType]
      variantKey == VariantKey(focus.variant)
  IN Range(IF variantKey \in DOMAIN typePresets
           THEN typePresets[variantKey] ELSE typePresets.classic)

\* |coordinate - centre| <= hundredths / 100 of the preset's scale, for both
\* coordinates of the last result.
JitterWithin(hundredths) ==
  LET result == focus.result
      bound == hundredths * 100 * result.preset.scale
  IN /\ result.x - result.preset.center.x \in (-bound)..bound
     /\ result.y - result.preset.center.y \in (-bound)..bound

\* C27 (as claimed): a resolved focus target comes from a preset whose scale
\* is at least the target scale and which is the first such preset of its
\* table, searched from the smallest scale up; its coordinates are within a
\* fixed fraction of the preset's scale of the preset's centre.
FocusPresetAtLeastTarget ==
  focus.result.resolved =>
    /\ focus.result.preset \in SearchedPresets
    /\ focus.result.preset.scale >= focus.targetScale
    /\ \A preset \in SearchedPresets :
         preset.scale >= focus.targetScale => focus.result.preset.scale <= preset.scale
    /\ JitterWithin(10)

\* C27 (amended): a resolved focus target comes from the preset with the
\* smallest scale among the presets of its table whose scale is at least
\* 10/11 of the target scale, with at most 9% of that preset's scale as
\* jitter on either coordinate; when no preset is that large it comes from
\* the preset with the largest scale, with at most 10% as jitter.  A target is
\* resolved exactly for the fractal types that have a table.
FocusPresetNearestReachingTarget ==
  /\ focus.calls > 0 => (focus.result.resolved <=> focus.fractalType \in DOMAIN FOCUS_PRESETS)
  /\ focus.result.resolved =>
       LET chosen == focus.result.preset
           reaching == {preset \in SearchedPresets : 11 * preset.scale >= 10 * focus.targetScale}
       IN /\ chosen \in SearchedPresets
          /\ IF reaching # {}
             THEN /\ chosen \in reaching
                  /\ \A preset \in reaching : chosen.scale <= preset.scale
                  /\ ~focus.result.fallback
                  /\ JitterWithin(9)
             ELSE /\ \A preset \in SearchedPresets : chosen.scale >= preset.scale
                  /\ focus.result.fallback
                  /\ JitterWithin(10)

\* The target scale 0.3686 (the initial scale after four manual zoom-ins) was
\* resolved in the classic table to the preset of scale 0.35, which is
\* smaller than the target, with jitter on both coordinates.
FocusPresetBelowTarget ==
  /\ focus.result.resolved
  /\ focus.fractalType = "mandelbrot"
  /\ focus.variant = "classic"
  /\ focus.targetScale = 3686
  /\ focus.result.preset.scale = 3500
  /\ focus.result.x # focus.result.preset.center.x
  /\ focus.result.y # focus.result.preset.center.y

\* ---------------------------------------------------------------------- C28
\* The render messages among those the worker has taken, in the order taken.
RendersTaken ==
  SelectSeq(SubSeq(messages, 1, workerPos), LAMBDA data : data.type = "render")

\* C28: the results the worker has posted are, in order, one render-result
\* for each render message it has taken, carrying that message's width and
\* height; set-palette messages and messages of other types add nothing.
OneResultPerRenderInOrder ==
  /\ Len(results) = Len(RendersTaken)
  /\ \A i \in DOMAIN results :
       /\ results[i].type = "render-result"
       /\ results[i].width = RendersTaken[i].width
       /\ results[i].height = RendersTaken[i].height
       /\ results[i].id = RendersTaken[i].id

\* The worker has taken a render, a message that is not a render and another
\* render of different dimensions: two results, in that order.
TwoRendersAnsweredInOrder ==
  /\ workerPos = 3
  /\ messages[1].type = "render"
  /\ messages[2].type # "render"
  /\ messages[3].type = "render"
  /\ Len(results) = 2
  /\ results[1].width # results[2].width
  /\ results[1].id = 1
  /\ results[2].id = 3

\* ------------------------------------------------------- the worker's pixels
\* The colouring of one pixel by the render worker. Coordinates of the view
\* and of the plane are in halves of a unit (a centre of -1 is -0.5), so that
\* the pixel grids drawn below fall on whole points; the orbit is then
\* iterated on whole numbers exactly as the worker iterates it on floats.
HalvesPerUnit == 2
\* Smooth iteration values and fractional palette indices are in thousandths.
Thousandths == 1000

\* JavaScript's %: the remainder takes the sign of the dividend.
JsRemainder(a, b) == IF a >= 0 THEN a % b ELSE -((-a) % b)

Abs(a) == IF a >= 0 THEN a ELSE -a

\* The point of pixel (x, y), in halves: real = minRe + x * reStep and
\* imaginary = maxIm - y * imStep.
PixelPoint(data, x, y) ==
  LET scale == data.view.scale
      aspectRatio == data.view.aspectRatio
      scaledHeight == scale * aspectRatio
      minRe == data.view.centerX - scale \div 2
      maxRe == data.view.centerX + scale \div 2
      minIm == data.view.centerY - scaledHeight \div 2
      maxIm == data.view.centerY + scaledHeight \div 2
      reStep == (maxRe - minRe) \div data.width
      imStep == (maxIm - minIm) \div data.height
  IN [real |-> minRe + x * reStep, imaginary |-> maxIm - y * imStep]

\* One pass of the body of the escape loop: the next z for the type and variant.
OrbitStep(fractalType, fractalVariant, zx, zy, cx, cy) ==
  IF fractalType = "mandelbrot" /\ fractalVariant = "burning-ship"
    THEN [zx |-> Abs(zx) * Abs(zx) - Abs(zy) * Abs(zy) + cx,
          zy |-> 2 * Abs(zx) * Abs(zy) + cy]
  ELSE IF fractalType = "mandelbrot" /\ fractalVariant = "cubic"
    THEN [zx |-> zx * zx * zx - 3 * zx * zy * zy + cx,
          zy |-> 3 * zx * zx * zy - zy * zy * zy + cy]
  ELSE IF fractalType = "mandelbrot" /\ fractalVariant = "perpendicular"
    THEN [zx |-> zx * zx - zy * zy + cx, zy |-> Abs(2 * zx * zy) + cy]
  ELSE [zx |-> zx * zx - zy * zy + cx, zy |-> 2 * zx * zy + cy]

\* The test of the escape loop: while |z|^2 <= 4 and iteration < maxIterations.
LoopGoesOn(data, z) ==
  z.zx * z.zx + z.zy * z.zy <= 4 /\ z.iteration < data.maxIterations

\* One test and pass of the escape loop; once the test fails the loop has ended.
LoopPass(data, cx, cy, z) ==
  IF LoopGoesOn(data, z)
    THEN LET next == OrbitStep(data.fractalType, data.fractalVariant, z.zx, z.zy, cx, cy)
         IN [zx |-> next.zx, zy |-> next.zy, iteration |-> z.iteration + 1]
    ELSE z

\* The loop after at most `passes` passes, the passes taken in two halves.
RECURSIVE LoopPasses(_, _, _, _, _)
LoopPasses(data, cx, cy, z, passes) ==
  IF passes = 0 \/ ~LoopGoesOn(data, z) THEN z
  ELSE IF passes = 1 THEN LoopPass(data, cx, cy, z)
  ELSE LET half == LoopPasses(data, cx, cy, z, passes \div 2)
       IN IF LoopGoesOn(data, half)
            THEN LoopPasses(data, cx, cy, half, passes - passes \div 2)
            ELSE half

\* The escape loop: the loop has ended after maxIterations passes at most.
Escape(data, zx, zy, cx, cy) ==
  LET z == LoopPasses(data, cx, cy, [zx |-> zx, zy |-> zy, iteration |-> 0],
                      data.maxIterations)
  IN [iteration |-> z.iteration, magnitude |-> z.zx * z.zx + z.zy * z.zy]

\* nu = log2(log2(|z|)) in thousandths, by the squared magnitude |z|^2 of the
\* escaped point; the squared magnitudes are those of the whole points that
\* the pixel grids below reach.
Nu ==
  (5 :> 215) @@ (9 :> 664) @@ (10 :> 732) @@ (16 :> 1000) @@ (17 :> 1031) @@
  (20 :> 1112) @@ (25 :> 1215) @@ (26 :> 1233) @@ (36 :> 1370) @@ (37 :> 1381) @@
  (49 :> 1489) @@ (50 :> 1497) @@ (64 :> 1585) @@ (65 :> 1590) @@ (81 :> 1664) @@
  (82 :> 1668) @@ (100 :> 1732) @@ (101 :> 1735) @@ (121 :> 1791) @@ (122 :> 1793) @@
  (144 :> 1842) @@ (145 :> 1844) @@ (169 :> 1888) @@ (170 :> 1889) @@ (196 :> 1929) @@
  (197 :> 1930) @@ (225 :> 1966) @@ (226 :> 1967) @@ (256 :> 2000) @@ (257 :> 2001) @@
  (289 :> 2031) @@ (290 :> 2032) @@ (324 :> 2060) @@ (325 :> 2061) @@ (361 :> 2087) @@
  (362 :> 2087) @@ (400 :> 2112) @@ (401 :> 2112)

\* smoothIteration, in thousandths: iteration + 1 - nu for an escaped pixel,
\* the iteration count itself for one that ran out of iterations.
SmoothIteration(escape, maxIterations) ==
  IF escape.iteration < maxIterations
    THEN (escape.iteration + 1) * Thousandths - Nu[escape.magnitude]
    ELSE escape.iteration * Thousandths

\* The two palette entries blended for a smooth iteration value and the weight
\* t between them: wrapIndex = smoothIteration % paletteLength, baseIndex =
\* Math.floor(wrapIndex), nextIndex = (baseIndex + 1) % paletteLength.
Blend(smoothIteration, paletteLength) ==
  LET wrapIndex == JsRemainder(smoothIteration, paletteLength * Thousandths)
      baseIndex == wrapIndex \div Thousandths
  IN [wrapIndex |-> wrapIndex,
      baseIndex |-> baseIndex,
      t |-> wrapIndex - baseIndex * Thousandths,
      nextIndex |-> JsRemainder(baseIndex + 1, paletteLength)]

\* The colouring of pixel (x, y) of a render request.
ColourOf(data, paletteLength, x, y) ==
  LET point == PixelPoint(data, x, y)
      real == point.real \div HalvesPerUnit
      imaginary == point.imaginary \div HalvesPerUnit
      escape == IF data.fractalType = "mandelbrot"
                  THEN Escape(data, 0, 0, real, imaginary)
                  ELSE Escape(data, real, imaginary, data.juliaSeed.x, data.juliaSeed.y)
      smoothIteration == SmoothIteration(escape, data.maxIterations)
      blend == Blend(smoothIteration, paletteLength)
  IN [real |-> real, imaginary |-> imaginary, iteration |-> escape.iteration,
      magnitude |-> escape.magnitude, smoothIteration |-> smoothIteration,
      wrapIndex |-> blend.wrapIndex, baseIndex |-> blend.baseIndex, t |-> blend.t,
      nextIndex |-> blend.nextIndex]

\* Canvases one pixel wide: the composer sends aspectRatio = height / width.
ShadeHeights == {2, 10, 40}
\* View centres, in halves: -0.5 and 0.5 put the pixel column on re = -1 and 0.
ShadeCentres == {-1, 1}
ShadeKinds ==
  {[fractalType |-> "mandelbrot", fractalVariant |-> v, juliaSeed |-> [x |-> 0, y |-> 0]] :
     v \in {"classic", "cubic", "burning-ship", "perpendicular"}}
  \cup {[fractalType |-> "julia", fractalVariant |-> "classic", juliaSeed |-> s] :
          s \in {[x |-> 0, y |-> 0], [x |-> -1, y |-> 0]}}
\* Entries of the palette LUT: palette.length / 3.
ShadePaletteLengths == {1, 3, 256}
\* The Director's base iteration budget.
ShadeIterations == 180

\* The render messages whose pixels are coloured.
ShadeRenders ==
  {[type |-> "render", width |-> 1, height |-> h,
    fractalType |-> k.fractalType, fractalVariant |-> k.fractalVariant,
    juliaSeed |-> k.juliaSeed, maxIterations |-> ShadeIterations,
    view |-> [centerX |-> c, centerY |-> 0, scale |-> HalvesPerUnit, aspectRatio |-> h]] :
     h \in ShadeHeights, c \in ShadeCentres, k \in ShadeKinds}

\* Pixels coloured in one run.
MaxShadeCalls == 1

\* The worker colours pixel (x, y) of a render request with a palette of
\* paletteLength entries.
ColourPixel(data, paletteLength, x, y) ==
  /\ shade.calls < MaxShadeCalls
  /\ shade' = [calls |-> shade.calls + 1, coloured |-> TRUE, data |-> data,
               paletteLength |-> paletteLength, x |-> x, y |-> y,
               colour |-> ColourOf(data, paletteLength, x, y)]
  /\ UNCHANGED <<engine, failure, given, engineVars, hostVars, channelVars, traceVars,
                 directorVars, focus, directive, lut, curator, julia>>

ShadeNext ==
  \E data \in ShadeRenders, paletteLength \in ShadePaletteLengths :
    \E x \in 0..(data.width - 1), y \in 0..(data.height - 1) :
      ColourPixel(data, paletteLength, x, y)

ShadeSpec == Init /\ [][ShadeNext]_vars

\* ---------------------------------------------------------------------- C29
\* C29: for every pixel the worker colours, the two palette entries it blends
\* have indices within 0 .. paletteLength - 1.
BlendedIndicesInPalette ==
  shade.coloured =>
    /\ shade.colour.baseIndex \in 0..(shade.paletteLength - 1)
    /\ shade.colour.nextIndex \in 0..(shade.paletteLength - 1)

\* ------------------------------------------------- handlers called by name
\* The handlers the hook returns.
Handlers ==
  {"handlePaletteShuffle", "handleFractalToggle", "handleFractalReshuffle",
   "handleJuliaReseed", "handleManualZoom", "handleResetView",
   "handleAutoZoomDirectionToggle", "handleMutationsToggle", "handleVariantChange",
   "handleAutoZoomSliderChange", "handleFullscreenToggle", "handlePresetSelect"}

\* handlers[name]: a function for a handler the hook returns, undefined otherwise.
HandlerOf(name) == IF name \in Handlers THEN "function" ELSE "undefined"

\* The direct setters a directive source calls, with their arguments: palette
\* indices, and Julia seeds as pairs of hundredths.
DirectSetters == {"handlePaletteSet", "handleJuliaSeedSet"}
SetterArguments(name) ==
  IF name = "handlePaletteSet" THEN {2, 5} ELSE {<<18, -42>>}

\* Calls by name in one run.
MaxDirectiveCalls == 1

\* result.current.handlers[name](argument) for a name the hook does not
\* return: calling undefined throws a TypeError and the Director is left as
\* it was.
CallMissingHandler(name, argument) ==
  /\ director = "mounted"
  /\ directive.calls < MaxDirectiveCalls
  /\ HandlerOf(name) = "undefined"
  /\ directive' = [calls |-> directive.calls + 1, handler |-> name,
                   argument |-> argument, threw |-> TRUE]
  /\ UNCHANGED <<engine, failure, given, engineVars, hostVars, channelVars, traceVars,
                 directorVars, focus, shade, lut, curator, julia>>

\* The hook under its ticks, the palette shuffle and a directive source that
\* calls the direct setters.
DirectiveNext ==
  \/ Mount
  \/ \E deltaSeconds \in TickDeltas : Step(deltaSeconds, MaxDirectorTicks)
  \/ CanCall /\ \E r \in Random : HandlePaletteShuffle(r)
  \/ \E name \in DirectSetters : \E argument \in SetterArguments(name) :
       CallMissingHandler(name, argument)

DirectiveSpec == DirectorInit /\ [][DirectiveNext]_vars

\* ---------------------------------------------------------------------- C30
\* C30: a call of a direct setter completes, and after handlePaletteSet(i)
\* the published palette index is i.
DirectSettersPublish ==
  [][directive'.calls > directive.calls =>
       /\ ~directive'.threw
       /\ directive'.handler = "handlePaletteSet" =>
            hook'.paletteIndex = directive'.argument]_vars

\* ------------------------------------------------------ the palette table
\* A hex colour is the sequence of its hex digits after the '#', six or three.
RECURSIVE ParseHex(_)
ParseHex(digits) ==
  IF digits = <<>> THEN 0
  ELSE 16 * ParseHex(SubSeq(digits, 1, Len(digits) - 1)) + digits[Len(digits)]

\* hexToRgb(hex): the shifts and masks on the parsed number; a three-digit
\* colour doubles each digit ((r << 4) | r).
hexToRgb(hex) ==
  LET bigint == ParseHex(hex)
  IN IF Len(hex) = 3
       THEN [r |-> 17 * ((bigint \div 256) % 16),
             g |-> 17 * ((bigint \div 16) % 16),
             b |-> 17 * (bigint % 16)]
       ELSE [r |-> (bigint \div 65536) % 256,
             g |-> (bigint \div 256) % 256,
             b |-> bigint % 256]

\* normalizePaletteContrast(lut): lut.map over the entries. The luminance
\* stretch is real-valued; an entry of the result records the entry it was
\* remapped from and whether it took the branch of a zero luminance (a black
\* entry), which yields a grey.
normalizePaletteContrast(entries) ==
  [index \in DOMAIN entries |->
     [from |-> entries[index],
      grey |-> entries[index].r = 0 /\ entries[index].g = 0 /\ entries[index].b = 0]]

\* The indices the loop of buildPaletteLut fills: for (i = 0; i < steps; i += 1),
\* as positions 1..steps of the table.
LutShort(steps) == 1..(steps - 1)
LutFilled(steps) == 1..steps

\* buildPaletteLut(colors, steps): entry i blends anchors index and
\* (index + 1) % rgb.length at position = (i / (steps - 1)) * (rgb.length - 1);
\* the channels are in units of 1 / (steps - 1).
buildPaletteLut(colors, steps) ==
  LET rgb == [k \in DOMAIN colors |-> hexToRgb(colors[k])]
      entry(i) ==
        LET index == (i * (Len(rgb) - 1)) \div (steps - 1)
            frac == i * (Len(rgb) - 1) - index * (steps - 1)
            current == rgb[index + 1]
            next == rgb[((index + 1) % Len(rgb)) + 1]
        IN [r |-> current.r * (steps - 1) + (next.r - current.r) * frac,
            g |-> current.g * (steps - 1) + (next.g - current.g) * frac,
            b |-> current.b * (steps - 1) + (next.b - current.b) * frac,
            index |-> index, frac |-> frac]
  IN normalizePaletteContrast([p \in LutFilled(steps) |-> entry(p - 1)])

\* Anchor colours: black, white, the first colour of the first palette, and a
\* three-digit colour.
LutColours ==
  {<<0, 0, 0, 0, 0, 0>>, <<15, 15, 15, 15, 15, 15>>, <<15, 15, 6, 11, 6, 11>>, <<8, 4, 5>>}
MaxAnchors == 3
MaxSteps == 5
LutPalettes ==
  UNION {[1..n -> LutColours] : n \in 2..MaxAnchors}

\* Tables built in one run.
MaxLutCalls == 1

\* One call of buildPaletteLut.
BuildPaletteLut(colors, steps) ==
  /\ lut.calls < MaxLutCalls
  /\ lut' = [calls |-> lut.calls + 1, built |-> TRUE, colors |-> colors, steps |-> steps,
             result |-> buildPaletteLut(colors, steps)]
  /\ UNCHANGED <<engine, failure, given, engineVars, hostVars, channelVars, traceVars,
                 directorVars, focus, shade, directive, curator, julia>>

LutNext ==
  \E colors \in LutPalettes, steps \in 2..MaxSteps : BuildPaletteLut(colors, steps)

LutSpec == Init /\ [][LutNext]_vars

\* ---------------------------------------------------------------------- C31
\* C31: buildPaletteLut returns exactly the requested number of entries, for
\* at least two anchor colours and a step count of at least two; every entry
\* blends two anchors of the palette, the first entry is the first anchor and
\* the last entry the last anchor.
LutHasRequestedLength ==
  lut.built =>
    /\ DOMAIN lut.result = 1..lut.steps
    /\ \A p \in DOMAIN lut.result :
         /\ lut.result[p].from.index \in 0..(Len(lut.colors) - 1)
         /\ lut.result[p].from.frac \in 0..(lut.steps - 2)
    /\ lut.result[1].from.r = hexToRgb(lut.colors[1]).r * (lut.steps - 1)
    /\ lut.result[lut.steps].from.r
         = hexToRgb(lut.colors[Len(lut.colors)]).r * (lut.steps - 1)

\* A table of five entries over three anchors, the middle anchor three-digit.
LutOfFiveFromThree ==
  /\ lut.built
  /\ lut.steps = 5
  /\ Len(lut.colors) = 3
  /\ Len(lut.colors[2]) = 3
  /\ lut.result[3].from.index = 1
  /\ lut.result[3].from.r = 4 * 136
  /\ lut.result[2].from.frac = 2

\* ------------------------------------------------------------ the AI curator
\* useAiFractalCurator. A JavaScript number is a record: finite numbers carry
\* their value (milliseconds for a cadence), anything else (undefined, NaN, a
\* string) is not finite.
Number(value) == [finite |-> TRUE, value |-> value]
NotANumber == [finite |-> FALSE, value |-> 0]

\* DIRECTIVE_CADENCE_LIMITS and AI_SETTINGS.suggestionIntervalMs and historyLimit.
CadenceMin == 15000
CadenceMax == 180000
SuggestionIntervalMs == 45000
HistoryLimit == 6

NormalizeWithoutClamp(value, fallback) ==
  IF value.finite THEN value.value ELSE fallback.value

\* normalizeCadence(value, fallback): the values are whole, so Math.round
\* leaves them as they are.
normalizeCadence(value, fallback) ==
  clamp(IF value.finite THEN value.value ELSE fallback.value, CadenceMin, CadenceMax)

\* The fields sanitizeDirective copies.
DirectiveFields ==
  {"fractalType", "variant", "paletteIndex", "juliaSeed", "preset", "statusMessage",
   "cadenceMs"}

\* A directive without fields; absent strings are "" and absent numbers 0.
EmptyDirective ==
  [fields |-> {}, fractalType |-> "", variant |-> "", paletteIndex |-> 0,
   juliaSeed |-> <<0, 0>>, preset |-> "", statusMessage |-> "", cadenceMs |-> 0]

\* What sanitizeDirective returns for a response that is no object.
NullDirective == [null |-> TRUE, directive |-> EmptyDirective]

\* sanitizeDirective(raw, baseState, {cadenceDefault}). A raw response is a
\* record of the fields read here (an absent string is "", an absent number
\* is not finite) and of the names of its other fields.
sanitizeDirective(raw, baseState, cadenceDefault) ==
  IF ~raw.object THEN NullDirective
  ELSE
    LET typed == raw.fractalType \in {"mandelbrot", "julia"}
        varied == raw.variant \in {FRACTAL_VARIANTS[i] : i \in DOMAIN FRACTAL_VARIANTS}
        seeded == raw.juliaSeed.finite
        cadence == IF raw.cadenceMs.finite THEN raw.cadenceMs ELSE Number(cadenceDefault)
        copied ==
          (IF typed THEN {"fractalType"} ELSE {})
          \cup (IF varied THEN {"variant"} ELSE {})
          \cup (IF raw.paletteIndex.finite THEN {"paletteIndex"} ELSE {})
          \cup (IF seeded THEN {"juliaSeed"} ELSE {})
          \cup (IF raw.preset # "" THEN {"preset"} ELSE {})
          \cup (IF raw.statusMessage # "" THEN {"statusMessage"} ELSE {})
          \cup {"cadenceMs"}
        sanitized ==
          [fields |-> copied,
           fractalType |-> IF typed THEN raw.fractalType ELSE "",
           variant |-> IF varied THEN raw.variant ELSE "",
           paletteIndex |->
             IF raw.paletteIndex.finite
               THEN JsRemainder(JsRemainder(raw.paletteIndex.value, PaletteCount)
                                  + PaletteCount, PaletteCount)
               ELSE 0,
           juliaSeed |-> IF seeded THEN raw.juliaSeed.value ELSE <<0, 0>>,
           preset |-> raw.preset,
           statusMessage |-> raw.statusMessage,
           cadenceMs |-> normalizeCadence(cadence, Number(cadenceDefault))]
    IN IF sanitized.fields = {} THEN NullDirective
       ELSE IF ~typed /\ baseState.fractalType # ""
         THEN [null |-> FALSE,
               directive |-> [sanitized EXCEPT !.fields = @ \cup {"fractalType"},
                                               !.fractalType = baseState.fractalType]]
         ELSE [null |-> FALSE, directive |-> sanitized]

\* The first palette after state.paletteIndex that is neither the current one
\* nor in the history, tried paletteCount times from state.paletteIndex + 1.
RECURSIVE NextFallbackPalette(_, _, _)
NextFallbackPalette(state, historyPalettes, attempt) ==
  LET nextPalette == state.paletteIndex + 1
      candidate == JsRemainder(JsRemainder(nextPalette + attempt, PaletteCount)
                                 + PaletteCount, PaletteCount)
  IN IF attempt >= PaletteCount
       THEN JsRemainder(JsRemainder(nextPalette, PaletteCount) + PaletteCount, PaletteCount)
     ELSE IF candidate # state.paletteIndex /\ candidate \notin historyPalettes
       THEN candidate
     ELSE NextFallbackPalette(state, historyPalettes, attempt + 1)

\* generateFallbackDirective(state, history, cadenceDefault); r is Math.random().
generateFallbackDirective(state, history, cadenceDefault, r) ==
  LET historyPalettes == {history[i].paletteIndex : i \in DOMAIN history}
      variantOptions == SelectSeq(FRACTAL_VARIANTS, LAMBDA v : v # state.fractalVariant)
      nextVariant == variantOptions[((r * Len(variantOptions)) \div 100) + 1]
  IN [source |-> "fallback",
      directive |->
        [EmptyDirective EXCEPT
           !.fields = {"fractalType", "variant", "paletteIndex", "statusMessage", "cadenceMs"},
           !.fractalType = state.fractalType,
           !.variant = nextVariant,
           !.paletteIndex = NextFallbackPalette(state, historyPalettes, 0),
           !.statusMessage = "Fallback: weaving fresh colors",
           !.cadenceMs = normalizeCadence(Number(cadenceDefault),
                                          Number(SuggestionIntervalMs))]]

\* The current state handed to the hook (the Director's published state).
BaseState ==
  [fractalType |-> "mandelbrot", fractalVariant |-> "classic", paletteIndex |-> 0]

\* Raw responses of the AI client: no object, an empty object, an object
\* with fields the curator does not copy, and objects whose cadence is below
\* the limits, above them, or no number.
RawResponse(fields) ==
  [object |-> TRUE, others |-> {}, fractalType |-> "", variant |-> "",
   paletteIndex |-> NotANumber, juliaSeed |-> [finite |-> FALSE, value |-> <<0, 0>>],
   preset |-> "", statusMessage |-> "", cadenceMs |-> NotANumber] @@ fields
RawResponses ==
  {[RawResponse(<<>>) EXCEPT !.object = FALSE],
   RawResponse(<<>>),
   [RawResponse(<<>>) EXCEPT !.paletteIndex = Number(3), !.statusMessage = "AI shift",
                             !.others = {"autoZoomPercent"}],
   [RawResponse(<<>>) EXCEPT !.cadenceMs = Number(5), !.fractalType = "julia",
                             !.variant = "cubic"],
   [RawResponse(<<>>) EXCEPT !.cadenceMs = Number(999999), !.paletteIndex = Number(-1),
                             !.fractalType = "newton", !.variant = "spiral",
                             !.others = {"mutationsEnabled"}],
   [RawResponse(<<>>) EXCEPT !.juliaSeed = [finite |-> TRUE, value |-> <<18, -42>>],
                             !.preset = "deep-dive"]}

\* Requests of one run, the automatic ones included.
MaxCuratorRequests == 2

\* timeoutRef and the timer behind it: held is timeoutRef.current being set,
\* scheduled is the timeout not having fired or been cleared; override is the
\* delayOverride its callback passes on.
NoTimer == [scheduled |-> FALSE, held |-> FALSE, delay |-> 0, override |-> NotANumber]
InitialTimerMs == 250

NoFlight ==
  [status |-> "none", aborted |-> FALSE, reschedule |-> FALSE, forceSchedule |-> FALSE,
   override |-> NotANumber, isEnabled |-> FALSE, cadenceDefault |-> 0, history |-> <<>>]
NoSettle == [id |-> 0, rejected |-> FALSE, raw |-> RawResponse(<<>>), fallback |-> EmptyDirective]

\* The options of a requestSuggestion call: reschedule !== false, forceSchedule
\* and delayOverride.
RequestOptions(reschedule, forceSchedule, override) ==
  [reschedule |-> reschedule, forceSchedule |-> forceSchedule, override |-> override]

\* clearScheduledRequest()
clearScheduledRequest(c) ==
  IF c.timer.held THEN [c EXCEPT !.timer = NoTimer] ELSE c

\* cleanupAbort(): aborts the controller in abortRef, if any, and forgets it.
cleanupAbort(c) ==
  IF c.abort # 0
    THEN [c EXCEPT !.flights[c.abort].aborted = TRUE, !.abort = 0]
    ELSE c

\* cancel()
cancel(c) == cleanupAbort(clearScheduledRequest(c))

LastOf(history, limit) ==
  IF Len(history) <= limit THEN history
  ELSE SubSeq(history, Len(history) - limit + 1, Len(history))

\* requestSuggestion(options) up to its await: the previous controller is
\* aborted, a new one is stored, the loading flag is set and the error cleared.
requestSuggestion(c, opts) ==
  LET id == c.issued + 1
      freed == cleanupAbort(c)
  IN [freed EXCEPT
        !.abort = id,
        !.flights[id] =
          [status |-> "pending", aborted |-> FALSE,
           reschedule |-> opts.reschedule, forceSchedule |-> opts.forceSchedule,
           override |-> opts.override, isEnabled |-> c.isEnabled,
           cadenceDefault |-> normalizeCadence(Number(c.cadence), c.autoCadenceMs),
           history |-> LastOf(c.history, HistoryLimit)],
        !.issued = id,
        !.isLoading = TRUE,
        !.error = FALSE]

\* The rest of requestSuggestion once the client has settled request id:
\* the try block for a response, the catch block for a rejection or for a
\* response that sanitizes to null, then the finally block.
settled(c, id, rejected, raw, r) ==
  LET f == c.flights[id]
      sanitized == sanitizeDirective(raw, BaseState, f.cadenceDefault)
      failed == rejected \/ sanitized.null
      fallback == generateFallbackDirective(BaseState, f.history, f.cadenceDefault, r)
      published == IF failed THEN fallback.directive ELSE sanitized.directive
      cadence == normalizeCadence(Number(published.cadenceMs), Number(f.cadenceDefault))
      cleared == IF c.timer.held THEN NoTimer ELSE c.timer
      delay == normalizeCadence(IF f.override.finite THEN f.override ELSE Number(cadence),
                                c.autoCadenceMs)
  IN [c EXCEPT
        !.flights[id].status = "settled",
        !.history = IF failed THEN @
                    ELSE LastOf(Append(f.history, [paletteIndex |-> BaseState.paletteIndex]),
                                HistoryLimit),
        !.cadence = cadence,
        !.error = IF failed THEN TRUE ELSE @,
        !.lastDirective = published,
        !.lastSource = IF failed THEN fallback.source ELSE "ai",
        !.published = @ + 1,
        !.lastSettle = [id |-> id, rejected |-> rejected, raw |-> raw,
                        fallback |-> fallback.directive],
        !.isLoading = FALSE,
        !.abort = 0,
        !.timer = IF f.reschedule /\ (f.forceSchedule \/ f.isEnabled)
                    THEN [scheduled |-> TRUE, held |-> TRUE, delay |-> delay,
                          override |-> NotANumber]
                    ELSE cleared]

\* The effect on isEnabled: disabled, it clears the timer and aborts; enabled,
\* it schedules the first request 250 ms ahead.
enableEffect(c) ==
  IF ~c.isEnabled THEN cleanupAbort(clearScheduledRequest(c))
  ELSE [clearScheduledRequest(c) EXCEPT
          !.timer = [scheduled |-> TRUE, held |-> TRUE, delay |-> InitialTimerMs,
                     override |-> Number(normalizeCadence(Number(c.cadence),
                                                          c.autoCadenceMs))]]

\* The hook is rendered for the first time and its effects run.
MountCurator(isEnabled, autoCadenceMs) ==
  /\ ~curator.rendered
  /\ curator' = enableEffect(
       [rendered |-> TRUE, isEnabled |-> isEnabled, autoCadenceMs |-> autoCadenceMs,
        cadence |-> normalizeCadence(autoCadenceMs, Number(SuggestionIntervalMs)),
        timer |-> NoTimer, abort |-> 0,
        flights |-> [i \in 1..MaxCuratorRequests |-> NoFlight],
        issued |-> 0, published |-> 0, history |-> <<>>,
        lastDirective |-> EmptyDirective, lastSource |-> "null",
        isLoading |-> FALSE, error |-> FALSE,
        lastSettle |-> NoSettle, quiet |-> FALSE])
  /\ UNCHANGED <<engine, failure, given, engineVars, hostVars, channelVars, traceVars,
                 directorVars, focus, shade, directive, lut, julia>>

CuratorActs(next) ==
  /\ curator.rendered
  /\ curator' = next
  /\ UNCHANGED <<engine, failure, given, engineVars, hostVars, channelVars, traceVars,
                 directorVars, focus, shade, directive, lut, julia>>

\* result.current.requestSuggestion(options), called by the user of the hook.
RequestSuggestion(reschedule) ==
  /\ curator.rendered /\ curator.issued < MaxCuratorRequests
  /\ CuratorActs([requestSuggestion(curator, RequestOptions(reschedule, FALSE, NotANumber))
                    EXCEPT !.quiet = FALSE])

\* The timeout fires: requestSuggestion({forceSchedule: true, delayOverride}).
TimerFires ==
  /\ curator.rendered /\ curator.timer.scheduled /\ curator.issued < MaxCuratorRequests
  /\ CuratorActs(requestSuggestion([curator EXCEPT !.timer.scheduled = FALSE],
                                   RequestOptions(TRUE, TRUE, curator.timer.override)))

\* aiClient.requestDirective resolves with a raw response.
ClientResolves(id, raw, r) ==
  /\ curator.rendered /\ curator.flights[id].status = "pending"
  /\ CuratorActs(settled(curator, id, FALSE, raw, r))

\* aiClient.requestDirective rejects (a failure, a timeout or an abort).
ClientRejects(id, r) ==
  /\ curator.rendered /\ curator.flights[id].status = "pending"
  /\ CuratorActs(settled(curator, id, TRUE, RawResponse(<<>>), r))

\* result.current.cancel()
Cancel ==
  /\ curator.rendered
  /\ CuratorActs([cancel(curator) EXCEPT !.quiet = TRUE])

\* The isEnabled prop changes: the cleanup of the effect of the previous
\* render runs (it exists when that render was enabled), then the effect.
SetEnabled(isEnabled) ==
  /\ curator.rendered /\ curator.isEnabled # isEnabled
  /\ LET cleaned == IF curator.isEnabled THEN cancel(curator) ELSE curator
     IN CuratorActs([enableEffect([cleaned EXCEPT !.isEnabled = isEnabled])
                       EXCEPT !.quiet = ~isEnabled])

AutoCadences == {Number(10000), NotANumber}

CuratorNext ==
  \/ \E isEnabled \in BOOLEAN, autoCadenceMs \in AutoCadences :
       MountCurator(isEnabled, autoCadenceMs)
  \/ \E reschedule \in BOOLEAN : RequestSuggestion(reschedule)
  \/ TimerFires
  \/ \E id \in 1..MaxCuratorRequests, raw \in RawResponses, r \in Random :
       ClientResolves(id, raw, r)
  \/ \E id \in 1..MaxCuratorRequests, r \in Random : ClientRejects(id, r)
  \/ Cancel
  \/ \E isEnabled \in BOOLEAN : SetEnabled(isEnabled)

CuratorSpec == Init /\ [][CuratorNext]_vars

\* ---------------------------------------------------------------------- C32
\* C32: every directive the curator publishes, from the AI client or from the
\* fallback generator, has a cadenceMs within 15000..180000 whatever the raw
\* response proposed, and carries only fields the curator copies.
PublishedCadenceWithinLimits ==
  (curator.rendered /\ curator.published > 0) =>
    /\ curator.lastDirective.cadenceMs \in CadenceMin..CadenceMax
    /\ "cadenceMs" \in curator.lastDirective.fields
    /\ curator.lastDirective.fields \subseteq DirectiveFields
    /\ curator.lastDirective.fields \cap curator.lastSettle.raw.others = {}
    /\ curator.cadence \in CadenceMin..CadenceMax

\* An AI directive published from a response that proposed a cadence above
\* the limits and carried a field the curator does not copy.
AiCadenceClampedFromAbove ==
  /\ curator.rendered
  /\ curator.lastSource = "ai"
  /\ curator.lastSettle.raw.cadenceMs = Number(999999)
  /\ curator.lastSettle.raw.others = {"mutationsEnabled"}
  /\ curator.lastDirective.cadenceMs = CadenceMax
  /\ curator.lastDirective.paletteIndex = 5

\* ---------------------------------------------------------------------- C33
\* The fields of a raw response that sanitizeDirective would copy from it.
Actionable(raw) ==
  IF ~raw.object THEN {}
  ELSE (IF raw.fractalType \in {"mandelbrot", "julia"} THEN {"fractalType"} ELSE {})
       \cup (IF raw.variant \in {FRACTAL_VARIANTS[i] : i \in DOMAIN FRACTAL_VARIANTS}
               THEN {"variant"} ELSE {})
       \cup (IF raw.paletteIndex.finite THEN {"paletteIndex"} ELSE {})
       \cup (IF raw.juliaSeed.finite THEN {"juliaSeed"} ELSE {})
       \cup (IF raw.preset # "" THEN {"preset"} ELSE {})
       \cup (IF raw.statusMessage # "" THEN {"statusMessage"} ELSE {})
       \cup (IF raw.cadenceMs.finite THEN {"cadenceMs"} ELSE {})

\* C33: when a curator request fails (the client rejects, or its response
\* yields no usable directive) the request still settles: the fallback
\* generator's directive is published with source 'fallback', the error is
\* recorded and the loading flag is cleared.
FailedRequestPublishesFallback ==
  [][(/\ curator.rendered
      /\ curator'.published > curator.published
      /\ \/ curator'.lastSettle.rejected
         \/ Actionable(curator'.lastSettle.raw) = {})
     => /\ curator'.lastSource = "fallback"
        /\ curator'.lastDirective = curator'.lastSettle.fallback
        /\ curator'.error
        /\ ~curator'.isLoading]_vars

\* ---------------------------------------------------------------------- C38
\* C38: after cancel() or after the curator is disabled (quiet: no
\* requestSuggestion call and no re-enabling since), no un-aborted request is
\* in flight and no timer is scheduled, and no request is issued and no
\* directive published.
QuietAfterCancel ==
  /\ [](curator.rendered /\ curator.quiet =>
          /\ \A id \in 1..MaxCuratorRequests :
               curator.flights[id].status = "pending" => curator.flights[id].aborted
          /\ ~curator.timer.scheduled)
  /\ [][curator.rendered /\ curator.quiet /\ curator'.quiet =>
          /\ curator'.issued = curator.issued
          /\ curator'.published = curator.published]_vars

\* ------------------------------------------------------------ the Julia seed
\* The Julia seed of the Director: what step, the reseeding handlers and
\* computeRenderPayload do to juliaSeedRef, to the published juliaSeed and to
\* the morph of the ambient state. Seeds are points in thousandths, the
\* phase and the morph speed (per second) are in thousandths, times are in
\* hundredths of a second.
SeedDraws == {<<600, 0>>, <<0, 950>>, <<-700, 300>>}
MorphSpeeds == {40, 80}
JuliaDeltas == {10, 600}
JuliaAccumulatorLimit == 14
MaxJuliaTicks == 3

\* easeInOut(t) = t * t * (3 - 2 * t), on thousandths.
easeInOut(t) == (t * t * (3000 - 2 * t)) \div 1000000

\* lerp(a, b, t) on thousandths.
lerpMilli(a, b, t) == a + ((b - a) * t) \div 1000

NoReseed == [done |-> FALSE, by |-> "none", value |-> <<0, 0>>, ticks |-> 0]
NoPayload == [composed |-> FALSE, juliaSeed |-> <<0, 0>>, source |-> <<0, 0>>,
              target |-> <<0, 0>>]

\* The hook is rendered: the published seed, juliaSource and juliaTarget are
\* three draws of randomJuliaSeed().
RenderJulia(fractalType, seed, source, target, speed) ==
  /\ ~julia.rendered
  /\ julia' = [rendered |-> TRUE, fractalType |-> fractalType,
               juliaSeedRef |-> seed, juliaSeed |-> seed,
               juliaPhase |-> 0, juliaMorphSpeed |-> speed,
               juliaSource |-> source, juliaTarget |-> target, juliaAccumulator |-> 0,
               ticks |-> 0, reseed |-> NoReseed, payload |-> NoPayload]
  /\ UNCHANGED <<engine, failure, given, engineVars, hostVars, channelVars, traceVars,
                 directorVars, focus, shade, directive, lut, curator>>

JuliaActs(next) ==
  /\ julia.rendered
  /\ julia' = next
  /\ UNCHANGED <<engine, failure, given, engineVars, hostVars, channelVars, traceVars,
                 directorVars, focus, shade, directive, lut, curator>>

\* nextSeed = randomJuliaSeed(); juliaSeedRef.current = nextSeed;
\* setJuliaSeed(nextSeed): the reseed of handleJuliaReseed, of the Mutation
\* Engine's reseedJulia and of applyScene.
reseeded(j, by, nextSeed) ==
  [j EXCEPT !.juliaSeedRef = nextSeed, !.juliaSeed = nextSeed,
            !.reseed = [done |-> TRUE, by |-> by, value |-> nextSeed, ticks |-> 0]]

\* The Julia block of step: the phase advances, wraps with a new target and
\* speed, and juliaSeedRef becomes the point between juliaSource and
\* juliaTarget; the published seed follows every 0.14 s.
juliaMorph(j, deltaSeconds, nextTarget, nextSpeed) ==
  IF j.fractalType = "julia"
    THEN
      LET advanced == j.juliaPhase + (deltaSeconds * j.juliaMorphSpeed) \div 100
          wrapped == advanced >= 1000
          phase == IF wrapped THEN advanced - 1000 ELSE advanced
          source == IF wrapped THEN j.juliaTarget ELSE j.juliaSource
          target == IF wrapped THEN nextTarget ELSE j.juliaTarget
          morphT == easeInOut(phase)
          nextSeed == <<lerpMilli(source[1], target[1], morphT),
                        lerpMilli(source[2], target[2], morphT)>>
          accumulator == j.juliaAccumulator + deltaSeconds
      IN [j EXCEPT !.juliaPhase = phase,
                   !.juliaSource = source,
                   !.juliaTarget = target,
                   !.juliaMorphSpeed = IF wrapped THEN nextSpeed ELSE @,
                   !.juliaSeedRef = nextSeed,
                   !.juliaAccumulator =
                     IF accumulator >= JuliaAccumulatorLimit THEN 0 ELSE accumulator,
                   !.juliaSeed = IF accumulator >= JuliaAccumulatorLimit THEN nextSeed ELSE @]
    ELSE [j EXCEPT !.juliaPhase = 0, !.juliaAccumulator = 0]

\* One tick of step, as far as the seed goes: a scene entry may reseed
\* (applyScene, before the Julia block), then the Julia block runs, then the
\* Mutation Engine may reseed (reseedJulia).
JuliaTick(deltaSeconds, sceneReseeds, mutationReseeds, nextSeed, nextTarget, nextSpeed) ==
  /\ julia.rendered /\ julia.ticks < MaxJuliaTicks
  /\ (sceneReseeds \/ mutationReseeds) =>
       (julia.fractalType = "julia" /\ ~julia.reseed.done)
  /\ LET ticked == [julia EXCEPT !.ticks = @ + 1,
                                 !.reseed.ticks = IF julia.reseed.done THEN @ + 1 ELSE @,
                                 !.payload = NoPayload]
         entered == IF sceneReseeds THEN reseeded(ticked, "applyScene", nextSeed)
                    ELSE ticked
         morphed == juliaMorph(entered, deltaSeconds, nextTarget, nextSpeed)
     IN JuliaActs(IF mutationReseeds /\ ~sceneReseeds
                    THEN reseeded(morphed, "reseedJulia", nextSeed)
                    ELSE morphed)

\* handleJuliaReseed()
JuliaReseed(nextSeed) ==
  /\ julia.rendered /\ julia.fractalType = "julia" /\ ~julia.reseed.done
  /\ JuliaActs([reseeded(julia, "handleJuliaReseed", nextSeed) EXCEPT !.payload = NoPayload])

\* handleFractalToggle(), as far as the seed goes: a toggle to julia reseeds.
JuliaToggle(nextSeed) ==
  /\ julia.rendered /\ ~julia.reseed.done
  /\ JuliaActs(IF julia.fractalType = "mandelbrot"
                 THEN [reseeded([julia EXCEPT !.fractalType = "julia"],
                                "handleFractalToggle", nextSeed)
                         EXCEPT !.payload = NoPayload]
                 ELSE [julia EXCEPT !.fractalType = "mandelbrot", !.payload = NoPayload])

\* computeRenderPayload: juliaSeed: type julia ? juliaSeedRef.current : null.
JuliaCompose ==
  /\ julia.rendered /\ julia.fractalType = "julia" /\ ~julia.payload.composed
  /\ JuliaActs([julia EXCEPT !.payload = [composed |-> TRUE, juliaSeed |-> julia.juliaSeedRef,
                                          source |-> julia.juliaSource,
                                          target |-> julia.juliaTarget]])

JuliaNext ==
  \/ \E fractalType \in {"mandelbrot", "julia"}, seed \in SeedDraws, source \in SeedDraws,
        target \in SeedDraws, speed \in MorphSpeeds :
       RenderJulia(fractalType, seed, source, target, speed)
  \/ \E deltaSeconds \in JuliaDeltas, sceneReseeds \in BOOLEAN, mutationReseeds \in BOOLEAN,
        nextSeed \in SeedDraws, nextTarget \in SeedDraws, nextSpeed \in MorphSpeeds :
       JuliaTick(deltaSeconds, sceneReseeds, mutationReseeds, nextSeed, nextTarget, nextSpeed)
  \/ \E nextSeed \in SeedDraws : JuliaReseed(nextSeed)
  \/ \E nextSeed \in SeedDraws : JuliaToggle(nextSeed)
  \/ JuliaCompose

JuliaSpec == Init /\ [][JuliaNext]_vars

\* ---------------------------------------------------------------------- C34
\* C34: after a Julia reseed while the type is julia, a render request
\* composed after the next tick carries the new seed or a value morphed from
\* it (the new seed is an end of the morph), never a value interpolated only
\* from the morph source and target the reseed did not touch.
ReseedCarriedByRenders ==
  (/\ julia.rendered
   /\ julia.payload.composed
   /\ julia.reseed.done
   /\ julia.reseed.ticks >= 1)
  => \/ julia.payload.juliaSeed = julia.reseed.value
     \/ julia.payload.source = julia.reseed.value
     \/ julia.payload.target = julia.reseed.value


\* ------------------------------------------------ the zoom-out window (C35)
\* C35: whenever the auto-zoom direction is outward, the zoom-out window timer
\* is running (ambient.zoomOutTimer > 0), whichever operation set the
\* direction: applyScene, mutateZoomDirection or
\* handleAutoZoomDirectionToggle; the ticks of step then close the window and
\* return the direction to inward.
OutwardWindowRunning ==
  hook.autoZoomDirection = 1 => hook.ambient.zoomOutTimer > 0


\* ---------------------------------------------------------------------- C36
\* C36: every action a cycle of the Mutation Engine executes satisfies, at the
\* moment it takes effect, the guard under which runFractalMutation pools it,
\* the second action of a cycle included: mutateVariant only while the type is
\* mandelbrot, reseedJulia only while it is julia, and a cooldown-guarded
\* action only while its cooldown is zero.
ExecutedActionsGuarded == cycle.breaches = {}


\* ---------------------------------------------------------------------- C37
\* The Director left running without a bound on its ticks and frames, the
\* mutations enabled throughout: the counters and the records of the bounded
\* specifications stay as they are, and cycle tells whether the last tick
\* invoked the Mutation Engine.
InvokedCycle == [NoCycle EXCEPT !.ran = TRUE]

\* The Director state without the record of its last scene entry.
Unrecorded(d) == [d EXCEPT !.entry = NoEntry]

\* What Math.random() returns in the scene entries and the mutation actions
\* of the running Director.
RunningRandom == {0}

\* Each animation frame runs the engine's frame loop, which composes one
\* frame, and then step; marks.frames counts the frames composed since the
\* last tick.
FramesPerTick == 1

\* The ticks of the running Director are 6 s apart.
RunningDeltas == {60}

\* step(now), deltaSeconds after the previous tick (the same body as Step).
KeepsTicking(deltaSeconds) ==
  /\ director = "mounted"
  /\ marks.frames = FramesPerTick
  /\ LET ticked == Ticked(hook, deltaSeconds)
     IN \E chosen \in IF Replaces(ticked)
                      THEN {SceneEntry(pickSceneDefinition(ticked.ambient.sceneName), r) :
                              r \in RunningRandom}
                      ELSE {NoDraws} :
          LET staged == IF Replaces(ticked) THEN applyScene(ticked, chosen, "step") ELSE ticked
              elapsed == staged.ambient.mutationElapsed + deltaSeconds
              armed == [staged EXCEPT !.ambient.mutationElapsed = 0,
                                      !.ambient.mutationInterval = MutationInterval]
          IN IF MutationDue(staged, elapsed)
             THEN /\ \E rolls \in {drawn \in MutationDraws(armed) : drawn.r \in RunningRandom} :
                       hook' = Unrecorded(runFractalMutation(armed, rolls).d)
                  /\ cycle' = InvokedCycle
             ELSE /\ hook' = Unrecorded([staged EXCEPT !.ambient.mutationElapsed =
                                                         TimerWaiting(staged, elapsed)])
                  /\ cycle' = NoCycle
  /\ marks' = [marks EXCEPT !.frames = 0]
  /\ UNCHANGED <<director, request, sinceFired>>
  /\ UNCHANGED <<engine, failure, given, engineVars, hostVars, channelVars, traceVars, utilVars>>

\* computeRenderPayload for a frame of the engine's loop.
KeepsComposing(frame, oscillators) ==
  /\ director = "mounted"
  /\ marks.frames < FramesPerTick
  /\ request' = [maxIterations |-> Budget(hook.view.scale, oscillators.energy),
                 scale |-> hook.view.scale, energy |-> oscillators.energy]
  /\ hook' = MarkArrival(
       [hook EXCEPT !.view.scale = NextScale(hook, frame, oscillators)])
  /\ marks' = [marks EXCEPT !.frames = @ + 1]
  /\ UNCHANGED <<director, cycle, sinceFired>>
  /\ UNCHANGED <<engine, failure, given, engineVars, hostVars, channelVars, traceVars, utilVars>>

\* The frames of the running Director: 2 s apart at the fastest zoom rate,
\* the oscillators at rest.
RunningFrames == {[blend |-> 1000, drift |-> 16]}
RunningOscillators == {[energy |-> 100, organic |-> 0]}

RunningNext ==
  \/ Mount
  \/ \E deltaSeconds \in RunningDeltas : KeepsTicking(deltaSeconds)
  \/ \E frame \in RunningFrames, oscillators \in RunningOscillators :
       KeepsComposing(frame, oscillators)

\* requestAnimationFrame keeps calling step and the engine's frame loop keeps
\* composing: neither waits for ever.
RunningSpec ==
  /\ DirectorInit
  /\ [][RunningNext]_vars
  /\ WF_vars(Mount)
  /\ WF_vars(\E deltaSeconds \in RunningDeltas : KeepsTicking(deltaSeconds))
  /\ WF_vars(\E frame \in RunningFrames, oscillators \in RunningOscillators :
               KeepsComposing(frame, oscillators))

\* C37: while the mutations stay enabled and the Director keeps ticking, the
\* Mutation Engine is invoked again and again: from every reachable state a
\* tick that invokes it eventually follows, however often scenes change.
MutationEngineInvokedAgain == []<>cycle.ran


\* ---------------------------------------------------------------------- C39
\* The version carried by the last set-palette message posted (0 when none).
LastVersionSent ==
  IF PaletteIndices = {} THEN 0
  ELSE messages[CHOOSE i \in PaletteIndices : \A j \in PaletteIndices : j <= i].paletteVersion

\* setPalette has stored a buffer since the last set-palette message was posted.
PaletteSetSinceSent == calls.setPalette - calls.rejected > LastVersionSent

\* C39: the palette version never decreases and the last-sent version never
\* exceeds it; an accepted frame posts at most one set-palette message, posts
\* it exactly when setPalette has stored a buffer since the last one posted,
\* and the message carries the buffer stored last - several setPalette calls
\* between two frames collapse into one message.
PaletteSentOncePerChange ==
  /\ [](paletteSentVersion <= paletteVersion)
  /\ [][paletteVersion' >= paletteVersion]_vars
  /\ [][calls'.accepted = calls.accepted + 1 =>
          LET posted == SubSeq(messages', Len(messages) + 1, Len(messages'))
              palettes == SelectSeq(posted, LAMBDA m : m.type = "set-palette")
          IN /\ Len(palettes) = (IF PaletteSetSinceSent THEN 1 ELSE 0)
             /\ Len(palettes) = 1 => /\ palettes[1].colors = paletteBuffer
                                     /\ palettes[1].paletteVersion = paletteVersion]_vars

\* Two setPalette calls, the empty buffer and then the one of length 3, were
\* followed by an accepted frame: one set-palette message, carrying the second.
TwoPalettesOneMessage ==
  /\ calls.setPalette = 2
  /\ calls.rejected = 0
  /\ paletteVersion = 2
  /\ paletteSentVersion = 2
  /\ Cardinality(PaletteIndices) = 1
  /\ \A i \in PaletteIndices : messages[i].colors = [kind |-> "Float32Array", length |-> 3]


\* ---------------------------------------------------------------------- C40
\* C40: in every reachable state of the engine the pending slot is occupied
\* only while a request is in flight (pendingMessage non-null implies busy),
\* and once destroy has been called the slot is empty and busy is false.
PendingOnlyWhileBusy ==
  /\ pendingMessage # NoMessage => busy
  /\ calls.destroy > 0 => (pendingMessage = NoMessage /\ ~busy)

\* destroy was called while a request was in flight and another one waited in
\* the slot: both are cleared.
DestroyedWithPending ==
  /\ calls.destroy = 1
  /\ queued # {}
  /\ calls.results = 0
  /\ pendingMessage = NoMessage
  /\ ~busy

====
